---- MODULE Spec2Model ----
(***************************************************************************)
(* CSV transformation engine of home-server-api.                           *)
(*                                                                         *)
(*   CsvEngineService  parseCsv / serializeCsv / buildSample,              *)
(*                     mapToCleaningActions (the Normalizer),              *)
(*                     applyActions (the Interpreter)                      *)
(*   CsvService        analyzeCsv (decoding of the advisor's candidates),  *)
(*                     cleanCsv (the two-phase pipeline)                   *)
(*                                                                         *)
(* A cell is a sequence of one-character strings, a row a sequence of      *)
(* cells, a table a sequence of rows.  JavaScript numbers that are used as *)
(* column indexes are records [int, half] standing for int + 1/2*half, so  *)
(* that a non-integer index is a value of the model.                       *)
(***************************************************************************)
EXTENDS Integers, Sequences, FiniteSets, TLC

VARIABLES
    rows,          \* applyActions: the table passed in (the caller's array)
    hasHeader,     \* applyActions: the hasHeader argument
    applied,       \* applyActions: number of actions consumed by the loop
    workingRows,   \* applyActions: let workingRows
    rowsChanged,   \* applyActions: let rowsChanged
    rowsDropped,   \* applyActions: let rowsDropped
    rowSrc,        \* ghost: rowSrc[j] = index in rows of the row workingRows[j] derives from
    rowShared,     \* ghost: rowShared[j] = workingRows[j] is the same array object as rows[rowSrc[j]]
    rows0,         \* ghost: the cells of rows when applyActions was called
    pc,            \* applyActions: "loop", "returned" or "thrown" (TypeError)
    parsedActions, \* analyzeCsv: parsed.actions, the advisor's decoded candidates
    via,           \* how the candidates reach the Normalizer: "direct" or "analyze"
    rawActions,    \* mapToCleaningActions: the rawActions argument
    actions,       \* mapToCleaningActions: const actions, the typed output
    origin,        \* ghost: origin[j] = index in rawActions of the candidate actions[j] came from
    idx,           \* mapToCleaningActions: number of candidates consumed by the for loop
    npc,           \* Normalizer: "analyze", "loop", "returned" or "thrown" (TypeError)
    pass,          \* pre-clean runs: 0 = free interpreter run, 1 = first plan run, 2 = re-run
    preCleanedRows,\* cleanCsv: rows of the first plan run
    preChanged,    \* cleanCsv: rowsChanged of the first plan run
    preDropped,    \* cleanCsv: rowsDropped of the first plan run
    csv,           \* cleanCsv: dto.csv, the text to parse
    delimiter,     \* cleanCsv: const delimiter
    rowsBefore,    \* cleanCsv: const rowsBefore
    columns,       \* cleanCsv: const columns
    sample,        \* cleanCsv: const sample, the csvSample handed to analyzeCsv
    calls,         \* number of requests sent to the advisor (axios.post)
    cpc,           \* cleanCsv / analyzeCsv: position of the call
    advisor,       \* what the advisor answered to the request
    response,      \* what the call returned to its caller, or how it failed
    whole,         \* ghost: one applyActions call given the actions of two calls
    sampleMaxLines,\* buildSample: the maxLines argument
    requests       \* cleanCsv: the calls in progress, each with its dto and its own locals

interpVars == <<rows, hasHeader, applied, workingRows, rowsChanged,
                rowsDropped, rowSrc, rowShared, rows0, pc>>
normVars   == <<parsedActions, via, rawActions, actions, origin, idx, npc>>
preVars    == <<pass, preCleanedRows, preChanged, preDropped>>
cleanVars  == <<csv, delimiter, rowsBefore, columns, sample, calls, cpc,
                advisor, response, whole, sampleMaxLines, requests>>
vars       == <<interpVars, normVars, preVars, cleanVars>>

---------------------------------------------------------------------------
(* Bounds of the model *)

MaxRows == 3        \* rows of an input table
MaxActions == 2     \* actions of an action list handed to applyActions
MaxCandidates == 2  \* candidates of a list handed to the Normalizer
MaxText == 5        \* characters of a text handed to parseCsv
MaxReply == 4       \* tokens of a text the advisor sends

---------------------------------------------------------------------------
(* Text: String.prototype.trim, startsWith, endsWith, slice, Number, String *)

Q == "\""

\* of the characters trim() removes, the ones the texts of the model hold
WhiteSpace == {" ", "\t", "\r", "\n"}

Digits == <<"0", "1", "2", "3", "4", "5", "6", "7", "8", "9">>

IsDigit(ch) == \E d \in 1..10 : Digits[d] = ch

DigitVal(ch) == (CHOOSE d \in 1..10 : Digits[d] = ch) - 1

RECURSIVE TrimStart(_)
TrimStart(s) ==
    IF s # <<>> /\ Head(s) \in WhiteSpace THEN TrimStart(Tail(s)) ELSE s

RECURSIVE TrimEnd(_)
TrimEnd(s) ==
    IF s # <<>> /\ s[Len(s)] \in WhiteSpace
    THEN TrimEnd(SubSeq(s, 1, Len(s) - 1)) ELSE s

\* cell.trim()
Trim(s) == TrimEnd(TrimStart(s))

\* trimmed.length >= 2 && trimmed.startsWith('"') && trimmed.endsWith('"')
IsWrapped(trimmed) ==
    Len(trimmed) >= 2 /\ trimmed[1] = Q /\ trimmed[Len(trimmed)] = Q

\* trimmed.slice(1, -1)
Inner(trimmed) == SubSeq(trimmed, 2, Len(trimmed) - 1)

RECURSIVE DigitsValue(_)
DigitsValue(s) ==
    IF s = <<>> THEN 0
    ELSE 10 * DigitsValue(SubSeq(s, 1, Len(s) - 1)) + DigitVal(s[Len(s)])

AllDigits(s) == s # <<>> /\ \A p \in 1..Len(s) : IsDigit(s[p])

\* Number(trimmed) for a non-empty trimmed text.  Cells of the model hold no
\* ".", "e", "x", "o", "b" or "I", so of the StringNumericLiteral grammar
\* only the signed decimal integers remain: [+-]?[0-9]+ parses, all else is NaN.
\* The result is [nan, neg, abs]; neg keeps the sign of -0.
ToNumber(trimmed) ==
    LET signed == trimmed # <<>> /\ trimmed[1] \in {"+", "-"}
        body   == IF signed THEN Tail(trimmed) ELSE trimmed
    IN  IF AllDigits(body)
        THEN [nan |-> FALSE, neg |-> signed /\ trimmed[1] = "-", abs |-> DigitsValue(body)]
        ELSE [nan |-> TRUE, neg |-> FALSE, abs |-> 0]

RECURSIVE NatToString(_)
NatToString(n) ==
    IF n < 10 THEN <<Digits[n + 1]>>
    ELSE NatToString(n \div 10) \o <<Digits[(n % 10) + 1]>>

\* String(num) for a num that is not NaN: -0 prints as "0".
NumToString(num) ==
    IF num.neg /\ num.abs # 0 THEN <<"-">> \o NatToString(num.abs)
    ELSE NatToString(num.abs)

---------------------------------------------------------------------------
(* Text: String.prototype.split and Array.prototype.join; parseCsv,
   serializeCsv and buildSample.  A text is a sequence of one-character
   strings, as a cell is. *)

\* csv.split(/\r?\n/): cur is the line read so far; a "\r" that has no "\n"
\* right behind it stays in the line
RECURSIVE SplitLinesFrom(_, _)
SplitLinesFrom(s, cur) ==
    IF s = <<>> THEN <<cur>>
    ELSE IF Head(s) = "\n" THEN <<cur>> \o SplitLinesFrom(Tail(s), <<>>)
    ELSE IF Head(s) = "\r" /\ Len(s) >= 2 /\ s[2] = "\n"
    THEN <<cur>> \o SplitLinesFrom(Tail(Tail(s)), <<>>)
    ELSE SplitLinesFrom(Tail(s), Append(cur, Head(s)))

SplitLines(s) == SplitLinesFrom(s, <<>>)

\* s.split(d) for a d that is not empty: cur is the piece read so far
RECURSIVE SplitOn(_, _, _)
SplitOn(s, d, cur) ==
    IF Len(s) < Len(d) THEN <<cur \o s>>
    ELSE IF SubSeq(s, 1, Len(d)) = d
    THEN <<cur>> \o SplitOn(SubSeq(s, Len(d) + 1, Len(s)), d, <<>>)
    ELSE SplitOn(Tail(s), d, Append(cur, Head(s)))

\* line.split(delimiter); the empty delimiter gives one piece per character
SplitCells(line, d) ==
    IF d = <<>> THEN [p \in 1..Len(line) |-> <<line[p]>>] ELSE SplitOn(line, d, <<>>)

\* parts.join(sep)
RECURSIVE Join(_, _)
Join(parts, sep) ==
    IF parts = <<>> THEN <<>>
    ELSE IF Len(parts) = 1 THEN parts[1]
    ELSE parts[1] \o sep \o Join(Tail(parts), sep)

\* the filter that keeps every line
KeepAllLines(lines) == lines

\* .filter((line) => line.length > 0)
NonEmptyLines(lines) == SelectSeq(lines, LAMBDA line : Len(line) > 0)

ParseCsv(text, d) ==
    LET lines == NonEmptyLines(SplitLines(text))
    IN  [j \in 1..Len(lines) |-> SplitCells(lines[j], d)]

SerializeCsv(t, d) ==
    Join([j \in 1..Len(t) |-> Join(t[j], d)], <<"\n">>)

\* buildSample(csv, maxLines = 50)
DefaultMaxLines == 50

BuildSample(text, maxLines) ==
    LET lines == SplitLines(text)
        sliced == SubSeq(lines, 1, IF maxLines < Len(lines) THEN maxLines ELSE Len(lines))
    IN  Join(sliced, <<"\n">>)

---------------------------------------------------------------------------
(* JavaScript numbers used as column indexes: int + 1/2 when half *)

JsInt(n) == [int |-> n, half |-> FALSE]

JsHalf(n) == [int |-> n, half |-> TRUE]

\* action.columnIndex < 0 || action.columnIndex >= row.length
OutOfBounds(columnIndex, row) ==
    columnIndex.int < 0 \/ columnIndex.int >= Len(row)

\* row[action.columnIndex] is undefined unless the index is an integer in range
IsElementIndex(columnIndex, row) ==
    ~columnIndex.half /\ columnIndex.int >= 0 /\ columnIndex.int < Len(row)

---------------------------------------------------------------------------
(* Tables *)

\* the <<r, c>> positions of the cells of a table
CellPositions(t) ==
    UNION {{<<r, c>> : c \in 1..Len(t[r])} : r \in 1..Len(t)}

AllFalse(n) == [j \in 1..n |-> FALSE]

Identity(n) == [j \in 1..n |-> j]

\* The variables of one applyActions call, as a record the cases transform.
\*   rows         the caller's table (cells written in place show here)
\*   workingRows, rowsChanged, rowsDropped   the locals
\*   rowSrc, rowShared                       the ghosts
\*   thrown       a TypeError left the call
CallState(t) ==
    [rows |-> t, workingRows |-> t, rowSrc |-> Identity(Len(t)),
     rowShared |-> [j \in 1..Len(t) |-> TRUE],
     rowsChanged |-> 0, rowsDropped |-> 0, thrown |-> FALSE]

---------------------------------------------------------------------------
(* applyActions: case 'TRIM_WHITESPACE' *)

\* the case that counts its cells only when nothing was counted before
TrimWhitespaceCountsFirst(st) ==
    LET w == st.workingRows
        changedHere == Cardinality({p \in CellPositions(w) :
                                       Trim(w[p[1]][p[2]]) # w[p[1]][p[2]]})
    IN  [st EXCEPT
           !.workingRows = [r \in 1..Len(w) |-> [c \in 1..Len(w[r]) |-> Trim(w[r][c])]],
           !.rowShared = AllFalse(Len(w)),
           !.rowsChanged = IF @ = 0 THEN changedHere ELSE @]

TrimWhitespace(st) ==
    LET w == st.workingRows
        changedHere == Cardinality({p \in CellPositions(w) :
                                       Trim(w[p[1]][p[2]]) # w[p[1]][p[2]]})
    IN  [st EXCEPT
           !.workingRows = [r \in 1..Len(w) |-> [c \in 1..Len(w[r]) |-> Trim(w[r][c])]],
           !.rowShared = AllFalse(Len(w)),
           !.rowsChanged = @ + changedHere]

(* applyActions: case 'STRIP_WRAPPING_QUOTES' *)

\* the cell that keeps its trimmed text when no quotes are stripped
StripCellTrimmed(cell) ==
    IF IsWrapped(Trim(cell)) THEN Inner(Trim(cell)) ELSE Trim(cell)

\* const trimmed = cell.trim(); the cell is trimmed.slice(1, -1) or stays as it is
StripCell(cell) ==
    IF IsWrapped(Trim(cell)) THEN Inner(Trim(cell)) ELSE cell

StripWrappingQuotes(st) ==
    LET w == st.workingRows
        changedHere == Cardinality({p \in CellPositions(w) :
                                       IsWrapped(Trim(w[p[1]][p[2]]))})
    IN  [st EXCEPT
           !.workingRows = [r \in 1..Len(w) |-> [c \in 1..Len(w[r]) |-> StripCell(w[r][c])]],
           !.rowShared = AllFalse(Len(w)),
           !.rowsChanged = @ + changedHere]

(* applyActions: case 'ENSURE_EQUAL_COLUMNS' *)

\* const padded = [...row]; while (padded.length < expectedColumns) padded.push('')
\* the copy that is pushed without a cell added
PadRowAsItIs(row, expectedColumns) == row

RECURSIVE PadRow(_, _)
PadRow(row, expectedColumns) ==
    IF Len(row) < expectedColumns
    THEN PadRow(Append(row, <<>>), expectedColumns) ELSE row

\* the fallback without the slice: the row is pushed as it is
SliceRowKeepsAll(row, expectedColumns) == row

\* row.slice(0, expectedColumns)
SliceRow(row, expectedColumns) ==
    SubSeq(row, 1, IF expectedColumns < Len(row) THEN expectedColumns ELSE Len(row))

\* newRows.unshift(row): the row goes in front
Unshift(acc, row, src, shared) ==
    [acc EXCEPT !.workingRows = <<row>> \o @,
                !.rowSrc = <<src>> \o @,
                !.rowShared = <<shared>> \o @]

\* newRows.push(row): acc.workingRows is newRows
Push(acc, row, src, shared) ==
    [acc EXCEPT !.workingRows = Append(@, row),
                !.rowSrc = Append(@, src),
                !.rowShared = Append(@, shared)]

Counted(acc, changed, dropped) ==
    [acc EXCEPT !.rowsChanged = @ + changed, !.rowsDropped = @ + dropped]

\* for (const row of workingRows) { ... }: acc holds newRows and the counters
RECURSIVE EnsureLoop(_, _, _, _, _)
EnsureLoop(st, mode, expectedColumns, j, acc) ==
    IF j > Len(st.workingRows) THEN acc
    ELSE LET row == st.workingRows[j]
             next ==
               IF Len(row) = expectedColumns
               THEN Push(acc, row, st.rowSrc[j], st.rowShared[j])
               ELSE IF mode = "pad-with-empty" /\ Len(row) < expectedColumns
               THEN Push(Counted(acc, 1, 0), PadRow(row, expectedColumns),
                         st.rowSrc[j], FALSE)
               ELSE IF mode = "drop-row"
               THEN Counted(acc, 0, 1)
               ELSE Push(Counted(acc, 1, 0), SliceRow(row, expectedColumns),
                         st.rowSrc[j], FALSE)
         IN  EnsureLoop(st, mode, expectedColumns, j + 1, next)

\* the count taken from the last row of the table
ExpectedColumnsOfLastRow(w) == IF Len(w) > 0 THEN Len(w[Len(w)]) ELSE 0

ExpectedColumns(w) == IF Len(w) > 0 THEN Len(w[1]) ELSE 0

\* the case that pads and cuts whatever the mode is
EnsureEqualColumnsPadOnly(st, mode) ==
    EnsureLoop(st, "pad-with-empty", ExpectedColumns(st.workingRows), 1,
               [st EXCEPT !.workingRows = <<>>, !.rowSrc = <<>>, !.rowShared = <<>>])

EnsureEqualColumns(st, mode) ==
    EnsureLoop(st, mode, ExpectedColumns(st.workingRows), 1,
               [st EXCEPT !.workingRows = <<>>, !.rowSrc = <<>>, !.rowShared = <<>>])

(* applyActions: case 'REMOVE_EMPTY_ROWS' *)

\* the test that looks at every cell, the first one too
AllEmptyWholeRow(row) ==
    \A c \in 1..Len(row) : Len(Trim(row[c])) = 0

\* row.slice(startCol).every((cell) => cell.trim().length === 0)
AllEmpty(row) ==
    LET startCol == IF Len(row) > 1 THEN 1 ELSE 0
    IN  \A c \in (startCol + 1)..Len(row) : Len(Trim(row[c])) = 0

RECURSIVE RemoveLoop(_, _, _, _)
RemoveLoop(st, header, rowIndex, acc) ==
    IF rowIndex >= Len(st.workingRows) THEN acc
    ELSE LET row == st.workingRows[rowIndex + 1]
             keep == Push(acc, row, st.rowSrc[rowIndex + 1], st.rowShared[rowIndex + 1])
             next == IF header /\ rowIndex = 0 THEN keep
                     ELSE IF AllEmpty(row) THEN Counted(acc, 0, 1)
                     ELSE keep
         IN  RemoveLoop(st, header, rowIndex + 1, next)

\* REMOVE_EMPTY_ROWS without the header test of line 261
RemoveEmptyRowsNoHeaderTest(st, header) ==
    RemoveLoop(st, FALSE, 0,
               [st EXCEPT !.workingRows = <<>>, !.rowSrc = <<>>, !.rowShared = <<>>])

RemoveEmptyRows(st, header) ==
    RemoveLoop(st, header, 0,
               [st EXCEPT !.workingRows = <<>>, !.rowSrc = <<>>, !.rowShared = <<>>])

(* applyActions: case 'COERCE_NUMERIC' *)

\* the write without rowsChanged++
WriteCellUncounted(acc, i, columnIndex, v) ==
    LET c == columnIndex.int + 1
        w == [acc EXCEPT !.workingRows[i + 1][c] = v]
    IN  IF acc.rowShared[i + 1]
        THEN [w EXCEPT !.rows[acc.rowSrc[i + 1]][c] = v]
        ELSE w

\* row[action.columnIndex] = v: the row array is written in place, so the
\* caller's row changes with it while it is still the same object
WriteCell(acc, i, columnIndex, v) ==
    LET c == columnIndex.int + 1
        w == [acc EXCEPT !.workingRows[i + 1][c] = v, !.rowsChanged = @ + 1]
    IN  IF acc.rowShared[i + 1]
        THEN [w EXCEPT !.rows[acc.rowSrc[i + 1]][c] = v]
        ELSE w

\* newRows.splice(i, 1)
Splice(seq, i) == SubSeq(seq, 1, i) \o SubSeq(seq, i + 2, Len(seq))

\* the splice without rowsDropped++
DropRowUncounted(acc, i) ==
    [acc EXCEPT !.workingRows = Splice(@, i),
                !.rowSrc = Splice(@, i),
                !.rowShared = Splice(@, i)]

DropRow(acc, i) ==
    [acc EXCEPT !.workingRows = Splice(@, i),
                !.rowSrc = Splice(@, i),
                !.rowShared = Splice(@, i),
                !.rowsDropped = @ + 1]

\* the loop without i-- after the splice: the row that moved up is not looked at
RECURSIVE CoerceLoopNoStepBack(_, _, _, _)
CoerceLoopNoStepBack(acc, columnIndex, onError, i) ==
    IF i >= Len(acc.workingRows) THEN acc
    ELSE LET row == acc.workingRows[i + 1]
         IN  IF OutOfBounds(columnIndex, row)
             THEN CoerceLoopNoStepBack(acc, columnIndex, onError, i + 1)
             ELSE IF ~IsElementIndex(columnIndex, row)
             THEN [acc EXCEPT !.thrown = TRUE]
             ELSE LET value == row[columnIndex.int + 1]
                      trimmed == Trim(value)
                      num == ToNumber(trimmed)
                      next ==
                        IF Len(trimmed) = 0 THEN acc
                        ELSE IF num.nan
                        THEN IF onError = "drop-row" THEN DropRow(acc, i)
                             ELSE IF onError = "set-null"
                             THEN WriteCell(acc, i, columnIndex, <<>>)
                             ELSE IF onError = "set-zero"
                             THEN WriteCell(acc, i, columnIndex, <<"0">>)
                             ELSE acc
                        ELSE IF NumToString(num) # value
                        THEN WriteCell(acc, i, columnIndex, NumToString(num))
                        ELSE acc
                  IN  CoerceLoopNoStepBack(next, columnIndex, onError, i + 1)

\* for (let i = startIndex; i < newRows.length; i++) { ... }: acc.workingRows is newRows
RECURSIVE CoerceLoop(_, _, _, _)
CoerceLoop(acc, columnIndex, onError, i) ==
    IF i >= Len(acc.workingRows) THEN acc
    ELSE LET row == acc.workingRows[i + 1]
         IN  IF OutOfBounds(columnIndex, row)
             THEN CoerceLoop(acc, columnIndex, onError, i + 1)
             ELSE IF ~IsElementIndex(columnIndex, row)
             THEN [acc EXCEPT !.thrown = TRUE]   \* value is undefined: value.trim() throws
             ELSE LET value == row[columnIndex.int + 1]
                      trimmed == Trim(value)
                      num == ToNumber(trimmed)
                  IN  IF Len(trimmed) = 0
                      THEN CoerceLoop(acc, columnIndex, onError, i + 1)
                      ELSE IF num.nan
                      THEN IF onError = "drop-row"
                           THEN CoerceLoop(DropRow(acc, i), columnIndex, onError, i)
                           ELSE IF onError = "set-null"
                           THEN CoerceLoop(WriteCell(acc, i, columnIndex, <<>>),
                                           columnIndex, onError, i + 1)
                           ELSE IF onError = "set-zero"
                           THEN CoerceLoop(WriteCell(acc, i, columnIndex, <<"0">>),
                                           columnIndex, onError, i + 1)
                           ELSE CoerceLoop(acc, columnIndex, onError, i + 1)
                      ELSE IF NumToString(num) # value
                      THEN CoerceLoop(WriteCell(acc, i, columnIndex, NumToString(num)),
                                      columnIndex, onError, i + 1)
                      ELSE CoerceLoop(acc, columnIndex, onError, i + 1)

\* the start that takes row 0 for a header whatever hasHeader is
StartIndexAlwaysOne(header) == 1

StartIndex(header) == IF header THEN 1 ELSE 0

CoerceNumeric(st, columnIndex, onError, header) ==
    CoerceLoop(st, columnIndex, onError, StartIndex(header))

(* applyActions: the switch on action.type *)

ApplyOne(st, a, header) ==
    CASE a.type = "TRIM_WHITESPACE"       -> TrimWhitespace(st)
      [] a.type = "STRIP_WRAPPING_QUOTES" -> StripWrappingQuotes(st)
      [] a.type = "ENSURE_EQUAL_COLUMNS"  -> EnsureEqualColumns(st, a.mode)
      [] a.type = "REMOVE_EMPTY_ROWS"     -> RemoveEmptyRows(st, header)
      [] a.type = "COERCE_NUMERIC"        -> CoerceNumeric(st, a.columnIndex, a.onError, header)
      [] OTHER                            -> st

\* for (const action of actions) { ... } run to the end, as one function
RECURSIVE ApplyAll(_, _, _)
ApplyAll(st, as, header) ==
    IF as = <<>> \/ st.thrown THEN st
    ELSE ApplyAll(ApplyOne(st, Head(as), header), Tail(as), header)

---------------------------------------------------------------------------
(* Inputs *)

CleaningModes == {"drop-row", "pad-with-empty"}

CoerceOnErrors == {"drop-row", "set-null", "set-zero"}

\* column indexes: below range, first, second, between two columns, above range
ColumnIndexValues == {JsInt(-1), JsInt(0), JsInt(1), JsHalf(1), JsInt(3)}

\* the CleaningAction union
ActionValues ==
    {[type |-> "TRIM_WHITESPACE"], [type |-> "STRIP_WRAPPING_QUOTES"],
     [type |-> "REMOVE_EMPTY_ROWS"]}
    \cup {[type |-> "ENSURE_EQUAL_COLUMNS", mode |-> m] : m \in CleaningModes}
    \cup {[type |-> "COERCE_NUMERIC", columnIndex |-> c, onError |-> e] :
             c \in ColumnIndexValues, e \in CoerceOnErrors}

\* rows of the input tables: widths 1 to 3; blank, quoted, numeric and text cells
RowValues ==
    { << <<>>, <<" ">> >>,                          \* ,_       every cell blank
      << <<"5">>, <<>> >>,                          \* 5,       only the first cell filled
      << <<"3">>, <<Q, "y", Q, " ">> >>,            \* 3,"y"_   wrapped in quotes, no number
      << <<"k">> >>,                                \* k        a short row
      << <<"4">>, <<" ", "7">>, <<"z">> >>,         \* 4,_7,z   a long row, a number to rewrite
      << <<Q>>, <<Q, Q, "q", Q, Q>> >> }            \* ",""q""  a lone quote, two layers of quotes

RECURSIVE SeqsUpTo(_, _)
SeqsUpTo(S, n) ==
    IF n = 0 THEN {<<>>}
    ELSE LET shorter == SeqsUpTo(S, n - 1)
         IN  shorter \cup {Append(q, x) : q \in {p \in shorter : Len(p) = n - 1}, x \in S}

Tables == SeqsUpTo(RowValues, MaxRows)

---------------------------------------------------------------------------
(* The Normalizer and the pre-clean plan are idle in the Interpreter runs *)

NormIdle ==
    /\ parsedActions = <<>> /\ via = "direct" /\ rawActions = <<>>
    /\ actions = <<>> /\ origin = <<>> /\ idx = 0 /\ npc = "idle"

PreIdle ==
    /\ pass = 0 /\ preCleanedRows = <<>> /\ preChanged = 0 /\ preDropped = 0

NoAnswer == [outcome |-> "none"]

NoResponse == [status |-> "none"]

CleanIdle ==
    /\ csv = <<>> /\ delimiter = <<>> /\ rowsBefore = 0 /\ columns = 0
    /\ sample = <<>> /\ calls = 0 /\ cpc = "idle"
    /\ advisor = NoAnswer /\ response = NoResponse /\ whole = <<>>
    /\ sampleMaxLines = 0 /\ requests = <<>>

---------------------------------------------------------------------------
(* applyActions as a state machine: one step per action of the list *)

Enter(t, header) ==
    /\ rows = t /\ rows0 = t /\ hasHeader = header
    /\ applied = 0
    /\ workingRows = t /\ rowsChanged = 0 /\ rowsDropped = 0
    /\ rowSrc = Identity(Len(t)) /\ rowShared = [j \in 1..Len(t) |-> TRUE]
    /\ pc = "loop"

Current ==
    [rows |-> rows, workingRows |-> workingRows, rowSrc |-> rowSrc,
     rowShared |-> rowShared, rowsChanged |-> rowsChanged,
     rowsDropped |-> rowsDropped, thrown |-> FALSE]

\* one iteration of for (const action of actions)
Step(a) ==
    /\ pc = "loop"
    /\ \E st \in {ApplyOne(Current, a, hasHeader)} :
           /\ rows' = st.rows
           /\ workingRows' = st.workingRows
           /\ rowSrc' = st.rowSrc
           /\ rowShared' = st.rowShared
           /\ rowsChanged' = st.rowsChanged
           /\ rowsDropped' = st.rowsDropped
           /\ pc' = IF st.thrown THEN "thrown" ELSE "loop"
    /\ applied' = applied + 1
    /\ UNCHANGED <<hasHeader, rows0>>

ApplyTrimWhitespace ==
    /\ applied < MaxActions /\ pass = 0
    /\ Step([type |-> "TRIM_WHITESPACE"])
    /\ UNCHANGED <<normVars, preVars, cleanVars>>

ApplyStripWrappingQuotes ==
    /\ applied < MaxActions /\ pass = 0
    /\ Step([type |-> "STRIP_WRAPPING_QUOTES"])
    /\ UNCHANGED <<normVars, preVars, cleanVars>>

ApplyEnsureEqualColumns ==
    /\ applied < MaxActions /\ pass = 0
    /\ \E m \in CleaningModes : Step([type |-> "ENSURE_EQUAL_COLUMNS", mode |-> m])
    /\ UNCHANGED <<normVars, preVars, cleanVars>>

ApplyRemoveEmptyRows ==
    /\ applied < MaxActions /\ pass = 0
    /\ Step([type |-> "REMOVE_EMPTY_ROWS"])
    /\ UNCHANGED <<normVars, preVars, cleanVars>>

ApplyCoerceNumeric ==
    /\ applied < MaxActions /\ pass = 0
    /\ \E c \in ColumnIndexValues, e \in CoerceOnErrors :
          Step([type |-> "COERCE_NUMERIC", columnIndex |-> c, onError |-> e])
    /\ UNCHANGED <<normVars, preVars, cleanVars>>

\* return { rows: workingRows, rowsChanged, rowsDropped }
Return ==
    /\ pc = "loop" /\ pass = 0
    /\ pc' = "returned"
    /\ UNCHANGED <<rows, hasHeader, applied, workingRows, rowsChanged,
                   rowsDropped, rowSrc, rowShared, rows0, normVars, preVars, cleanVars>>

Init ==
    /\ \E t \in Tables, header \in BOOLEAN : Enter(t, header)
    /\ NormIdle /\ PreIdle /\ CleanIdle

Next ==
    \/ ApplyTrimWhitespace
    \/ ApplyStripWrappingQuotes
    \/ ApplyEnsureEqualColumns
    \/ ApplyRemoveEmptyRows
    \/ ApplyCoerceNumeric
    \/ Return

Spec == Init /\ [][Next]_vars

\* applyActions handed a list of COERCE_NUMERIC actions and nothing else
NextCoerce == ApplyCoerceNumeric \/ Return

SpecCoerce == Init /\ [][NextCoerce]_vars

---------------------------------------------------------------------------
(* JavaScript values of unknown shape: the advisor's candidates *)

Undefined == [t |-> "undefined"]

Null == [t |-> "null"]

JsStr(s) == [t |-> "string", s |-> s]

JsNum(n) == [t |-> "number", n |-> n]

JsBool(b) == [t |-> "boolean", b |-> b]

JsArray == [t |-> "array"]

\* an object; f maps the names of its own properties to their values
JsObj(f) == [t |-> "object", f |-> f]

\* typeof v
TypeOf(v) == IF v.t \in {"null", "array"} THEN "object" ELSE v.t

\* reading v.name throws a TypeError on null and undefined
Throws(v) == v.t \in {"null", "undefined"}

\* v.name where it does not throw: undefined unless v is an object that has it
Get(v, name) ==
    IF v.t = "object" /\ name \in DOMAIN v.f THEN v.f[name] ELSE Undefined

\* String(v) of a number or a boolean
JsToString(v) ==
    IF v.t = "boolean" THEN (IF v.b THEN "true" ELSE "false")
    ELSE IF ~v.n.half THEN ToString(v.n.int)
    ELSE IF v.n.int >= 0 THEN ToString(v.n.int) \o ".5"
    ELSE "-" \o ToString(-(v.n.int + 1)) \o ".5"

---------------------------------------------------------------------------
(* analyzeCsv: parsed.actions.map((a) => ({ type, columnIndex })) *)

\* the mapping that reads columnIndex alone
AnalyzeOneCamelOnly(a) ==
    LET ty == Get(a, "type")
        type == IF TypeOf(ty) = "string" THEN ty.s
                ELSE IF TypeOf(ty) \in {"number", "boolean"} THEN JsToString(ty)
                ELSE "unknown"
        columnIndex == IF TypeOf(Get(a, "columnIndex")) = "number"
                       THEN Get(a, "columnIndex")
                       ELSE Undefined
    IN  JsObj([type |-> JsStr(type), columnIndex |-> columnIndex])

AnalyzeOne(a) ==
    LET ty == Get(a, "type")
        type == IF TypeOf(ty) = "string" THEN ty.s
                ELSE IF TypeOf(ty) \in {"number", "boolean"} THEN JsToString(ty)
                ELSE "unknown"
        columnIndex == IF TypeOf(Get(a, "column_index")) = "number"
                       THEN Get(a, "column_index")
                       ELSE IF TypeOf(Get(a, "columnIndex")) = "number"
                       THEN Get(a, "columnIndex")
                       ELSE Undefined
    IN  JsObj([type |-> JsStr(type), columnIndex |-> columnIndex])

\* the whole map call: [thrown, out]
AnalyzeActions(cands) ==
    IF \E k \in 1..Len(cands) : Throws(cands[k])
    THEN [thrown |-> TRUE, out |-> <<>>]
    ELSE [thrown |-> FALSE, out |-> [k \in 1..Len(cands) |-> AnalyzeOne(cands[k])]]

---------------------------------------------------------------------------
(* mapToCleaningActions: the body of for (const a of rawActions) *)

ActionKinds ==
    {"TRIM_WHITESPACE", "STRIP_WRAPPING_QUOTES", "ENSURE_EQUAL_COLUMNS",
     "REMOVE_EMPTY_ROWS", "COERCE_NUMERIC"}

\* the case that takes over whatever string the candidate has as its mode
NormalizeModeAnyString(obj) ==
    IF TypeOf(Get(obj, "mode")) = "string" THEN Get(obj, "mode").s ELSE "drop-row"

\* case 'ENSURE_EQUAL_COLUMNS'
NormalizeMode(obj) ==
    IF Get(obj, "mode") = JsStr("pad-with-empty") THEN "pad-with-empty" ELSE "drop-row"

\* the case whose fallback is 'set-null'
NormalizeOnErrorSetNull(obj) ==
    LET rawOnError == Get(obj, "onError")
    IN  IF rawOnError \in {JsStr("set-null"), JsStr("set-zero"), JsStr("drop-row")}
        THEN rawOnError.s ELSE "set-null"

\* case 'COERCE_NUMERIC': rawOnError === 'set-null' || ...
NormalizeOnError(obj) ==
    LET rawOnError == Get(obj, "onError")
    IN  IF rawOnError \in {JsStr("set-null"), JsStr("set-zero"), JsStr("drop-row")}
        THEN rawOnError.s ELSE "drop-row"

\* the switch on obj.type: the actions pushed for one candidate, none or one
Pushed(obj) ==
    LET type == Get(obj, "type").s
    IN  CASE type = "TRIM_WHITESPACE"       -> << [type |-> "TRIM_WHITESPACE"] >>
          [] type = "STRIP_WRAPPING_QUOTES" -> << [type |-> "STRIP_WRAPPING_QUOTES"] >>
          [] type = "ENSURE_EQUAL_COLUMNS"  ->
                << [type |-> "ENSURE_EQUAL_COLUMNS", mode |-> NormalizeMode(obj)] >>
          [] type = "REMOVE_EMPTY_ROWS"     -> << [type |-> "REMOVE_EMPTY_ROWS"] >>
          [] type = "COERCE_NUMERIC"        ->
                IF TypeOf(Get(obj, "columnIndex")) = "number"
                THEN << [type |-> "COERCE_NUMERIC",
                         columnIndex |-> Get(obj, "columnIndex").n,
                         onError |-> NormalizeOnError(obj)] >>
                ELSE <<>>
          [] OTHER                          -> <<>>

\* the loop body whose default case pushes the candidate's type as an action
NormalizeOneAnyType(a) ==
    IF Throws(a) THEN [thrown |-> TRUE, out |-> <<>>]
    ELSE IF TypeOf(Get(a, "type")) # "string" THEN [thrown |-> FALSE, out |-> <<>>]
    ELSE IF Get(a, "type").s \notin ActionKinds
    THEN [thrown |-> FALSE, out |-> << [type |-> Get(a, "type").s] >>]
    ELSE [thrown |-> FALSE, out |-> Pushed(a)]

\* the loop body that takes column 0 when a COERCE_NUMERIC candidate names none
NormalizeOneDefaultColumn(a) ==
    IF Throws(a) THEN [thrown |-> TRUE, out |-> <<>>]
    ELSE IF TypeOf(Get(a, "type")) # "string" THEN [thrown |-> FALSE, out |-> <<>>]
    ELSE IF Get(a, "type").s = "COERCE_NUMERIC" /\ Pushed(a) = <<>>
    THEN [thrown |-> FALSE,
          out |-> << [type |-> "COERCE_NUMERIC", columnIndex |-> JsInt(0),
                      onError |-> NormalizeOnError(a)] >>]
    ELSE [thrown |-> FALSE, out |-> Pushed(a)]

\* one iteration: [thrown, out]; obj.type throws when a is null or undefined
NormalizeOne(a) ==
    IF Throws(a) THEN [thrown |-> TRUE, out |-> <<>>]
    ELSE IF TypeOf(Get(a, "type")) # "string" THEN [thrown |-> FALSE, out |-> <<>>]
    ELSE [thrown |-> FALSE, out |-> Pushed(a)]

\* mapToCleaningActions as a function: [thrown, out]
RECURSIVE MapToCleaningActions(_)
MapToCleaningActions(cands) ==
    IF cands = <<>> THEN [thrown |-> FALSE, out |-> <<>>]
    ELSE LET one == NormalizeOne(Head(cands))
             rest == MapToCleaningActions(Tail(cands))
         IN  IF one.thrown \/ rest.thrown THEN [thrown |-> TRUE, out |-> <<>>]
             ELSE [thrown |-> FALSE, out |-> one.out \o rest.out]

---------------------------------------------------------------------------
(* Candidates *)

CandidateValues ==
    { Null, Undefined, JsNum(JsInt(5)), JsStr("TRIM_WHITESPACE"), JsArray,
      JsObj([mode |-> JsStr("pad-with-empty")]),
      JsObj([type |-> JsNum(JsInt(7))]),
      JsObj([type |-> JsStr("FOO")]),
      JsObj([type |-> JsStr("trim_whitespace")]),
      JsObj([type |-> JsStr("TRIM_WHITESPACE"), mode |-> JsStr("pad-with-empty")]),
      JsObj([type |-> JsStr("STRIP_WRAPPING_QUOTES")]),
      JsObj([type |-> JsStr("REMOVE_EMPTY_ROWS"), columnIndex |-> JsNum(JsInt(1))]),
      JsObj([type |-> JsStr("ENSURE_EQUAL_COLUMNS")]),
      JsObj([type |-> JsStr("ENSURE_EQUAL_COLUMNS"), mode |-> JsStr("pad-with-empty")]),
      JsObj([type |-> JsStr("ENSURE_EQUAL_COLUMNS"), mode |-> JsStr("bogus")]),
      JsObj([type |-> JsStr("ENSURE_EQUAL_COLUMNS"), mode |-> JsBool(TRUE)]),
      JsObj([type |-> JsStr("COERCE_NUMERIC")]),
      JsObj([type |-> JsStr("COERCE_NUMERIC"), columnIndex |-> JsStr("2")]),
      JsObj([type |-> JsStr("COERCE_NUMERIC"), columnIndex |-> JsNum(JsInt(2)),
             onError |-> JsStr("set-null")]),
      JsObj([type |-> JsStr("COERCE_NUMERIC"), column_index |-> JsNum(JsInt(2))]),
      JsObj([type |-> JsStr("COERCE_NUMERIC"), columnIndex |-> JsNum(JsInt(0)),
             onError |-> JsStr("drop-row")]),
      JsObj([type |-> JsStr("COERCE_NUMERIC"), column_index |-> JsNum(JsInt(1)),
             columnIndex |-> JsNum(JsInt(0)), onError |-> JsStr("set-zero")]),
      JsObj([type |-> JsStr("COERCE_NUMERIC"), columnIndex |-> JsNum(JsHalf(1)),
             onError |-> JsStr("bogus")]),
      JsObj([type |-> JsStr("COERCE_NUMERIC"), columnIndex |-> JsNum(JsInt(-1)),
             onError |-> JsNum(JsInt(0))]) }

CandidateLists == SeqsUpTo(CandidateValues, MaxCandidates)

---------------------------------------------------------------------------
(* The advisor and analyzeCsv.  The text the advisor sends is a sequence of
   tokens: the braces, the blank, a letter of prose, the two characters \'
   as one token, and J, which stands for the members of a JSON object; doc is
   the object that { J } denotes. *)

\* an array and its elements
JsList(es) == [t |-> "array", e |-> es]

\* Array.isArray(v)
IsArray(v) == v.t = "array"

\* String(v) of a string, a number, a boolean, null or undefined
JsString(v) ==
    CASE v.t = "string"    -> v.s
      [] v.t = "null"      -> "null"
      [] v.t = "undefined" -> "undefined"
      [] OTHER             -> JsToString(v)

\* analyzeCsvPrompt after the request: [thrown, raw].  axios.post rejects, or
\* resolves with data whose choices[0].message.content is answer.content
AnalyzeCsvPrompt(answer) ==
    IF answer.outcome = "error" THEN [thrown |-> TRUE, raw |-> <<>>]
    ELSE IF answer.content.t # "string" \/ answer.content.s = <<>>
    THEN [thrown |-> TRUE, raw |-> <<>>]
    ELSE [thrown |-> FALSE, raw |-> Trim(answer.content.s)]

\* raw.indexOf(ch) + 1: 0 when ch does not occur
IndexOf(s, ch) ==
    IF \E p \in 1..Len(s) : s[p] = ch
    THEN CHOOSE p \in 1..Len(s) : s[p] = ch /\ \A q \in 1..(p - 1) : s[q] # ch
    ELSE 0

\* raw.lastIndexOf(ch) + 1
LastIndexOf(s, ch) ==
    IF \E p \in 1..Len(s) : s[p] = ch
    THEN CHOOSE p \in 1..Len(s) : s[p] = ch /\ \A q \in (p + 1)..Len(s) : s[q] # ch
    ELSE 0

\* extractJsonBlock: [ok, block]; not ok is the BadRequestException
ExtractJsonBlock(raw) ==
    LET trimmed == Trim(raw)
        firstBrace == IndexOf(raw, "{")
        lastBrace == LastIndexOf(raw, "}")
    IN  IF trimmed # <<>> /\ Head(trimmed) = "{" /\ trimmed[Len(trimmed)] = "}"
        THEN [ok |-> TRUE, block |-> trimmed]
        ELSE IF firstBrace = 0 \/ lastBrace = 0 \/ lastBrace <= firstBrace
        THEN [ok |-> FALSE, block |-> <<>>]
        ELSE [ok |-> TRUE, block |-> Trim(SubSeq(raw, firstBrace, lastBrace))]

\* jsonString.replace(/\\'/g, "'")
Sanitize(jsonString) ==
    [p \in 1..Len(jsonString) |->
        IF jsonString[p] = "\\'" THEN "'" ELSE jsonString[p]]

\* JSON.parse: [ok, value]; not ok is the SyntaxError.  Blanks between the
\* tokens are white space of JSON; { J } is doc, { } the object without
\* members, and nothing else is JSON
JsonParse(text, doc) ==
    LET tokens == SelectSeq(text, LAMBDA k : k # " ")
    IN  IF tokens = <<"{", "J", "}">> THEN [ok |-> TRUE, value |-> doc]
        ELSE IF tokens = <<"{", "}">> THEN [ok |-> TRUE, value |-> JsObj(<<>>)]
        ELSE [ok |-> FALSE, value |-> Undefined]

IsValidAiResponse(value) ==
    /\ TypeOf(value) = "object" /\ value # Null
    /\ TypeOf(Get(value, "explanation")) = "string"
    /\ IsArray(Get(value, "issues"))
    /\ IsArray(Get(value, "actions"))

\* the response of analyzeCsv for a parsed value that passed the type guard
AnalyzeResponse(parsed) ==
    LET issues == Get(parsed, "issues").e
        mapped == AnalyzeActions(Get(parsed, "actions").e)
    IN  IF mapped.thrown THEN [status |-> "TypeError"]
        ELSE [status |-> "ok",
              explanation |-> Get(parsed, "explanation").s,
              issues |-> [k \in 1..Len(issues) |-> JsString(issues[k])],
              actions |-> mapped.out]

\* analyzeCsv that answers a failed request with a plan of no actions
AnalyzeCsvFallsBack(answer) ==
    IF AnalyzeCsvPrompt(answer).thrown
    THEN [status |-> "ok", explanation |-> "", issues |-> <<>>, actions |-> <<>>]
    ELSE [status |-> "BadRequest", message |-> "no JSON object"]

\* analyzeCsv after the request: what it returns, or the exception it throws
AnalyzeCsv(answer) ==
    LET prompt == AnalyzeCsvPrompt(answer)
        json == ExtractJsonBlock(prompt.raw)
        parsed == JsonParse(Sanitize(json.block), answer.doc)
    IN  IF prompt.thrown THEN [status |-> "Error"]
        ELSE IF ~json.ok THEN [status |-> "BadRequest", message |-> "no JSON object"]
        ELSE IF ~parsed.ok THEN [status |-> "BadRequest", message |-> "not valid JSON"]
        ELSE IF ~IsValidAiResponse(parsed.value)
        THEN [status |-> "BadRequest", message |-> "missing required fields"]
        ELSE AnalyzeResponse(parsed.value)

---------------------------------------------------------------------------
(* The Normalizer as a state machine: the candidates are handed to
   mapToCleaningActions as they are (via = "direct"), or as cleanCsv hands
   them over, through the mapping of analyzeCsv (via = "analyze") *)

InterpIdle ==
    /\ rows = <<>> /\ rows0 = <<>> /\ hasHeader = FALSE /\ applied = 0
    /\ workingRows = <<>> /\ rowsChanged = 0 /\ rowsDropped = 0
    /\ rowSrc = <<>> /\ rowShared = <<>> /\ pc = "idle"

InitNormalizer ==
    /\ \E cands \in CandidateLists, v \in {"direct", "analyze"} :
          /\ parsedActions = cands /\ via = v
          /\ rawActions = (IF v = "direct" THEN cands ELSE <<>>)
          /\ npc = (IF v = "direct" THEN "loop" ELSE "analyze")
    /\ actions = <<>> /\ origin = <<>> /\ idx = 0
    /\ InterpIdle /\ PreIdle /\ CleanIdle

\* analyzeCsv lines 78-107; plan.actions is what cleanCsv passes on
AnalyzeMap ==
    /\ npc = "analyze"
    /\ \E r \in {AnalyzeActions(parsedActions)} :
          /\ rawActions' = r.out
          /\ npc' = IF r.thrown THEN "analyzeThrown" ELSE "loop"
    /\ UNCHANGED <<parsedActions, via, actions, origin, idx, interpVars, preVars, cleanVars>>

\* one iteration of for (const a of rawActions)
NormalizeStep ==
    /\ npc = "loop" /\ idx < Len(rawActions)
    /\ \E r \in {NormalizeOne(rawActions[idx + 1])} :
          /\ actions' = actions \o r.out
          /\ origin' = origin \o [j \in 1..Len(r.out) |-> idx + 1]
          /\ npc' = IF r.thrown THEN "thrown" ELSE "loop"
    /\ idx' = idx + 1
    /\ UNCHANGED <<parsedActions, via, rawActions, interpVars, preVars, cleanVars>>

\* return actions
NormalizeReturn ==
    /\ npc = "loop" /\ idx = Len(rawActions)
    /\ npc' = "returned"
    /\ UNCHANGED <<parsedActions, via, rawActions, actions, origin, idx,
                   interpVars, preVars, cleanVars>>

NextNormalizer == AnalyzeMap \/ NormalizeStep \/ NormalizeReturn

SpecNormalizer == InitNormalizer /\ [][NextNormalizer]_vars

---------------------------------------------------------------------------
(* The fixed pre-clean plan of cleanCsv, run on a parsed table and then run
   again on the table it returned *)

\* the plan that trims before it strips the quotes
preCleanActionsTrimFirst ==
    << [type |-> "TRIM_WHITESPACE"],
       [type |-> "STRIP_WRAPPING_QUOTES"],
       [type |-> "REMOVE_EMPTY_ROWS"],
       [type |-> "ENSURE_EQUAL_COLUMNS", mode |-> "pad-with-empty"] >>

preCleanActions ==
    << [type |-> "STRIP_WRAPPING_QUOTES"],
       [type |-> "TRIM_WHITESPACE"],
       [type |-> "REMOVE_EMPTY_ROWS"],
       [type |-> "ENSURE_EQUAL_COLUMNS", mode |-> "pad-with-empty"] >>

InitPreClean ==
    /\ \E t \in Tables, header \in BOOLEAN : Enter(t, header)
    /\ pass = 1 /\ preCleanedRows = <<>> /\ preChanged = 0 /\ preDropped = 0
    /\ NormIdle /\ CleanIdle

\* one iteration of the loop of applyActions over preCleanActions
PlanStep ==
    /\ pass \in {1, 2}
    /\ applied < Len(preCleanActions)
    /\ Step(preCleanActions[applied + 1])
    /\ UNCHANGED <<normVars, preVars, cleanVars>>

\* the first run returns { rows: preCleanedRows, rowsChanged: preChanged,
\* rowsDropped: preDropped }; the plan is then applied to preCleanedRows
PlanReturn ==
    /\ pass = 1 /\ pc = "loop" /\ applied = Len(preCleanActions)
    /\ preCleanedRows' = workingRows
    /\ preChanged' = rowsChanged
    /\ preDropped' = rowsDropped
    /\ pass' = 2
    /\ rows' = workingRows /\ rows0' = workingRows
    /\ applied' = 0 /\ rowsChanged' = 0 /\ rowsDropped' = 0
    /\ rowSrc' = Identity(Len(workingRows))
    /\ rowShared' = [j \in 1..Len(workingRows) |-> TRUE]
    /\ UNCHANGED <<workingRows, hasHeader, pc, normVars, cleanVars>>

\* the second run returns
PlanDone ==
    /\ pass = 2 /\ pc = "loop" /\ applied = Len(preCleanActions)
    /\ pc' = "returned"
    /\ UNCHANGED <<rows, hasHeader, applied, workingRows, rowsChanged,
                   rowsDropped, rowSrc, rowShared, rows0, normVars, preVars, cleanVars>>

NextPreClean == PlanStep \/ PlanReturn \/ PlanDone

SpecPreClean == InitPreClean /\ [][NextPreClean]_vars

---------------------------------------------------------------------------
(* Two calls of applyActions, the second on the table the first returned,
   next to one call that is given the actions of both (whole) *)

\* rows of the tables: a blank row, a row with a quoted cell, a longer row
ComposeRows ==
    { << <<>>, <<" ">> >>,
      << <<"3">>, <<Q, "y", Q, " ">> >>,
      << <<"4">>, <<" ", "7">>, <<"z">> >> }

ComposeTables == SeqsUpTo(ComposeRows, MaxRows)

\* the one call: its variables and the number of actions its loop has consumed
Whole(st, n) == [call |-> st, applied |-> n]

InitCompose ==
    /\ \E t \in ComposeTables, header \in BOOLEAN :
          Enter(t, header) /\ whole = Whole(CallState(t), 0)
    /\ sampleMaxLines = 0 /\ requests = <<>>
    /\ pass = 1 /\ preCleanedRows = <<>> /\ preChanged = 0 /\ preDropped = 0
    /\ csv = <<>> /\ delimiter = <<>> /\ rowsBefore = 0 /\ columns = 0
    /\ sample = <<>> /\ calls = 0 /\ cpc = "idle"
    /\ advisor = NoAnswer /\ response = NoResponse
    /\ NormIdle

\* one iteration of the loop, in the call that runs and in the one call; the
\* lists of the two calls have MaxActions actions together
ComposeStep ==
    /\ pass \in {1, 2} /\ whole.applied < MaxActions
    /\ \E a \in ActionValues :
          /\ Step(a)
          /\ whole' = Whole(ApplyAll(whole.call, <<a>>, hasHeader), whole.applied + 1)
    /\ UNCHANGED <<normVars, preVars, csv, delimiter, rowsBefore, columns,
                   sample, calls, cpc, advisor, response, sampleMaxLines, requests>>

\* the first call returns { rows, rowsChanged, rowsDropped }; the second call
\* is made with rows
SecondCall ==
    /\ pass = 1 /\ pc = "loop"
    /\ preCleanedRows' = workingRows
    /\ preChanged' = rowsChanged
    /\ preDropped' = rowsDropped
    /\ pass' = 2
    /\ rows' = workingRows /\ rows0' = workingRows
    /\ applied' = 0 /\ rowsChanged' = 0 /\ rowsDropped' = 0
    /\ rowSrc' = Identity(Len(workingRows))
    /\ rowShared' = [j \in 1..Len(workingRows) |-> TRUE]
    /\ UNCHANGED <<workingRows, hasHeader, pc, normVars, cleanVars>>

\* the second call returns
ComposeDone ==
    /\ pass = 2 /\ pc = "loop"
    /\ pc' = "returned"
    /\ UNCHANGED <<rows, hasHeader, applied, workingRows, rowsChanged,
                   rowsDropped, rowSrc, rowShared, rows0, normVars, preVars,
                   cleanVars>>

NextCompose == ComposeStep \/ SecondCall \/ ComposeDone

SpecCompose == InitCompose /\ [][NextCompose]_vars

---------------------------------------------------------------------------
(* parseCsv and serializeCsv on texts: a text is parsed, the table is
   serialized, and the serialized text is parsed again *)

\* a letter, the comma, and the two characters of the line ends
TextChars == {"a", ",", "\r", "\n"}

Texts == SeqsUpTo(TextChars, MaxText)

\* the comma, the empty delimiter, a delimiter of two characters
DelimiterValues == { <<",">>, <<>>, <<",", ",">> }

InitText ==
    /\ csv \in Texts /\ delimiter \in DelimiterValues /\ cpc = "text"
    /\ rowsBefore = 0 /\ columns = 0 /\ sample = <<>> /\ calls = 0
    /\ advisor = NoAnswer /\ response = NoResponse /\ whole = <<>>
    /\ sampleMaxLines = 0 /\ requests = <<>>
    /\ InterpIdle /\ NormIdle /\ PreIdle

\* rows = parseCsv(csv, delimiter)
ParseText ==
    /\ cpc = "text"
    /\ rows' = ParseCsv(csv, delimiter)
    /\ rows0' = rows'
    /\ cpc' = "parsed"
    /\ UNCHANGED <<hasHeader, applied, workingRows, rowsChanged, rowsDropped,
                   rowSrc, rowShared, pc, normVars, preVars, csv, delimiter,
                   rowsBefore, columns, sample, calls, advisor, response, whole, sampleMaxLines, requests>>

\* serializeCsv(rows, delimiter)
SerializeText ==
    /\ cpc = "parsed"
    /\ response' = [status |-> "ok", cleanedCsv |-> SerializeCsv(rows, delimiter)]
    /\ cpc' = "serialized"
    /\ UNCHANGED <<interpVars, normVars, preVars, csv, delimiter, rowsBefore,
                   columns, sample, calls, advisor, whole, sampleMaxLines, requests>>

\* parseCsv of the serialized text, same delimiter
ReparseText ==
    /\ cpc = "serialized"
    /\ rows' = ParseCsv(response.cleanedCsv, delimiter)
    /\ cpc' = "reparsed"
    /\ UNCHANGED <<hasHeader, applied, workingRows, rowsChanged, rowsDropped,
                   rowSrc, rowShared, rows0, pc, normVars, preVars, csv, delimiter,
                   rowsBefore, columns, sample, calls, advisor, response, whole, sampleMaxLines, requests>>

\* values of the maxLines argument; the last is its default
SampleSizes == {0, 1, 2, DefaultMaxLines}

\* buildSample(csv, maxLines)
SampleText ==
    /\ cpc = "text"
    /\ \E n \in SampleSizes :
          /\ sampleMaxLines' = n
          /\ sample' = BuildSample(csv, n)
    /\ cpc' = "sampled"
    /\ UNCHANGED <<interpVars, normVars, preVars, csv, delimiter, rowsBefore,
                   columns, calls, advisor, response, whole, requests>>

NextText == ParseText \/ SerializeText \/ ReparseText \/ SampleText

SpecText == InitText /\ [][NextText]_vars

---------------------------------------------------------------------------
(* analyzeCsv as a state machine: the request is sent, and the call resumes
   with whatever the advisor answers *)

ReplyTokens == {"{", "}", " ", "x", "J", "\\'"}

ReplyTexts == SeqsUpTo(ReplyTokens, MaxReply)

\* elements of parsed.actions: null, a number, an object
DocCandidates ==
    { Null, JsNum(JsInt(5)), JsObj([type |-> JsStr("TRIM_WHITESPACE")]) }

Explained(issues, acts) ==
    JsObj([explanation |-> JsStr("e"), issues |-> issues, actions |-> acts])

\* the objects { J } may denote: with the three members, and with a member
\* missing or of another type
DocValues ==
    { Explained(i, JsList(c)) :
          i \in {JsList(<<>>), JsList(<<JsStr("i"), JsNum(JsInt(2)), Null>>)},
          c \in SeqsUpTo(DocCandidates, MaxCandidates) }
    \cup { JsObj([issues |-> JsList(<<>>), actions |-> JsList(<<>>)]),
           JsObj([explanation |-> JsNum(JsInt(1)), issues |-> JsList(<<>>),
                  actions |-> JsList(<<>>)]),
           JsObj([explanation |-> JsStr("e"), actions |-> JsList(<<>>)]),
           Explained(JsStr("i"), JsList(<<>>)),
           Explained(JsList(<<>>), Null),
           Explained(JsList(<<>>), JsObj([type |-> JsStr("TRIM_WHITESPACE")])) }

Failure == [outcome |-> "error", content |-> Undefined, doc |-> Undefined]

Reply(content, doc) == [outcome |-> "reply", content |-> content, doc |-> doc]

\* the request fails; the reply has no content, a content that is no string,
\* or the empty string
NoTextAnswers ==
    {Failure} \cup {Reply(c, Undefined) : c \in {Undefined, JsNum(JsInt(5)), JsStr(<<>>)}}

\* the objects the J of a text may denote, if the text has one
DocsOf(t) == IF \E p \in 1..Len(t) : t[p] = "J" THEN DocValues ELSE {Undefined}

InitAnalyze ==
    /\ sample \in {<<"a">>, <<"a", ",", "a", "\n", "5", ",">>}
    /\ cpc = "analyze"
    /\ csv = <<>> /\ delimiter = <<",">> /\ rowsBefore = 0 /\ columns = 0
    /\ calls = 0 /\ advisor = NoAnswer /\ response = NoResponse /\ whole = <<>>
    /\ sampleMaxLines = 0 /\ requests = <<>>
    /\ InterpIdle /\ NormIdle /\ PreIdle

\* analyzeCsvPrompt up to await axios.post(...)
SendRequest ==
    /\ cpc = "analyze"
    /\ calls' = calls + 1
    /\ cpc' = "awaitingAnalyze"
    /\ UNCHANGED <<interpVars, normVars, preVars, csv, delimiter, rowsBefore,
                   columns, sample, advisor, response, whole, sampleMaxLines, requests>>

\* the rest of analyzeCsv
AnalyzeResume ==
    /\ cpc = "awaitingAnalyze"
    /\ \/ advisor' \in NoTextAnswers
       \/ \E t \in ReplyTexts \ {<<>>} : \E d \in DocsOf(t) :
             advisor' = Reply(JsStr(t), d)
    /\ response' = AnalyzeCsv(advisor')
    /\ cpc' = IF response'.status = "ok" THEN "done" ELSE "failed"
    /\ UNCHANGED <<interpVars, normVars, preVars, csv, delimiter, rowsBefore,
                   columns, sample, calls, whole, sampleMaxLines, requests>>

NextAnalyze == SendRequest \/ AnalyzeResume

SpecAnalyze == InitAnalyze /\ [][NextAnalyze]_vars

---------------------------------------------------------------------------
(* cleanCsv as a state machine.  The call runs without interruption up to
   the request to the advisor, and again from the answer to its end. *)

\* pieces of the texts: lines with their line ends
CsvPieces ==
    { <<"a", ",", "b", "\n">>,                                  \* a,b
      <<" ", "0", "7", ",", Q, " ", "x", Q, ",", "9", "\r", "\n">>,  \* _07,"_x",9 and CR LF
      <<" ", ",", "\n", "\n">>,                                 \* _, and a line of no character
      <<"1", ",", Q, Q, Q, Q, "\n">> }                          \* 1,""""

\* ID,Name,Age / 1,_John_,25 / 2,"Anna", / ,,_ : a header, a padded cell, a
\* quoted cell before a cell of no character, and a row of blank cells
ScenarioText ==
    <<"I", "D", ",", "N", "a", "m", "e", ",", "A", "g", "e", "\n",
      "1", ",", " ", "J", "o", "h", "n", " ", ",", "2", "5", "\n",
      "2", ",", Q, "A", "n", "n", "a", Q, ",", "\n",
      ",", ",", " ">>

\* a first line of one blank, then x
BlankFirstLineText == <<" ", "\n", "x">>

CleanTexts ==
    {Join(ps, <<>>) : ps \in SeqsUpTo(CsvPieces, MaxRows)}
        \cup {ScenarioText, BlankFirstLineText}

\* dto.delimiter and dto.hasHeader, both optional
DtoDelimiters == {Undefined, JsStr(<<",">>), JsStr(<<";">>)}

DtoHasHeaders == {Undefined, JsBool(TRUE), JsBool(FALSE)}

\* v ?? d
Default(v, d) == IF v \in {Undefined, Null} THEN d ELSE v

\* elements of the actions array of the advisor's plan
PlanCandidates ==
    { JsObj([type |-> JsStr("FOO")]),
      JsObj([type |-> JsStr("STRIP_WRAPPING_QUOTES")]),
      JsObj([type |-> JsStr("REMOVE_EMPTY_ROWS")]),
      JsObj([type |-> JsStr("COERCE_NUMERIC"), column_index |-> JsNum(JsInt(0))]),
      JsObj([type |-> JsStr("COERCE_NUMERIC"), column_index |-> JsNum(JsHalf(1))]) }

\* the request fails, the reply has no content, no JSON object, no valid
\* JSON, no members; or it is a plan
PlanAnswers ==
    { Failure, Reply(Undefined, Undefined),
      Reply(JsStr(<<"x">>), Undefined),
      Reply(JsStr(<<"{", "x", "}">>), Undefined),
      Reply(JsStr(<<"{", "}">>), Undefined) }
    \cup { Reply(JsStr(<<"x", "{", "J", "}">>),
                 Explained(JsList(<<JsStr("i")>>), JsList(c))) :
              c \in SeqsUpTo(PlanCandidates, MaxCandidates) }

InitClean ==
    /\ csv \in CleanTexts
    /\ \E d \in DtoDelimiters, h \in DtoHasHeaders :
          /\ delimiter = Default(d, JsStr(<<",">>)).s
          /\ hasHeader = Default(h, JsBool(TRUE)).b
    /\ cpc = "clean"
    /\ rows = <<>> /\ rows0 = <<>> /\ applied = 0 /\ workingRows = <<>>
    /\ rowsChanged = 0 /\ rowsDropped = 0 /\ rowSrc = <<>> /\ rowShared = <<>>
    /\ pc = "idle"
    /\ rowsBefore = 0 /\ columns = 0 /\ sample = <<>> /\ calls = 0
    /\ advisor = NoAnswer /\ response = NoResponse /\ whole = <<>>
    /\ sampleMaxLines = 0 /\ requests = <<>>
    /\ NormIdle /\ PreIdle

\* the number of actions the loop of applyActions has taken when it ends
RECURSIVE Consumed(_, _, _)
Consumed(st, as, header) ==
    IF as = <<>> \/ st.thrown THEN 0
    ELSE 1 + Consumed(ApplyOne(st, Head(as), header), Tail(as), header)

\* the interpreter variables after a call of applyActions(t, as, hasHeader)
\* that ended in st
Called(t, as, st) ==
    /\ rows' = st.rows /\ rows0' = t
    /\ workingRows' = st.workingRows
    /\ rowSrc' = st.rowSrc /\ rowShared' = st.rowShared
    /\ rowsChanged' = st.rowsChanged /\ rowsDropped' = st.rowsDropped
    /\ applied' = IF st.thrown THEN Consumed(CallState(t), as, hasHeader) ELSE Len(as)
    /\ pc' = IF st.thrown THEN "thrown" ELSE "returned"

\* cleanCsv from parseCsv to the request of analyzeCsvPrompt
CleanStart ==
    /\ cpc = "clean"
    /\ \E originalRows \in {ParseCsv(csv, delimiter)} :
          /\ rowsBefore' = Len(originalRows)
          /\ columns' = IF Len(originalRows) > 0 THEN Len(originalRows[1]) ELSE 0
          /\ \E st \in {ApplyAll(CallState(originalRows), preCleanActions, hasHeader)} :
                /\ Called(originalRows, preCleanActions, st)
                /\ IF st.thrown
                   THEN /\ response' = [status |-> "TypeError"] /\ cpc' = "failed"
                        /\ UNCHANGED <<preCleanedRows, preChanged, preDropped,
                                       sample, calls>>
                   ELSE /\ preCleanedRows' = st.workingRows
                        /\ preChanged' = st.rowsChanged
                        /\ preDropped' = st.rowsDropped
                        /\ sample' = BuildSample(SerializeCsv(st.workingRows, delimiter),
                                                 DefaultMaxLines)
                        /\ calls' = calls + 1
                        /\ cpc' = "awaiting"
                        /\ UNCHANGED response
    /\ pass' = 1
    /\ UNCHANGED <<hasHeader, normVars, csv, delimiter, advisor, whole, sampleMaxLines, requests>>

\* the response whose stats are those of the second applyActions alone
CleanResponseSecondPass(plan, finalRows, aiChanged, aiDropped) ==
    [status |-> "ok",
     aiReview |-> [explanation |-> plan.explanation, issues |-> plan.issues,
                   actions |-> plan.actions],
     stats |-> [rowsBefore |-> Len(preCleanedRows), rowsAfter |-> Len(finalRows),
                columns |-> columns,
                rowsChanged |-> aiChanged,
                rowsDropped |-> aiDropped],
     cleanedCsv |-> SerializeCsv(finalRows, delimiter)]

\* the response of cleanCsv
CleanResponse(plan, finalRows, aiChanged, aiDropped) ==
    [status |-> "ok",
     aiReview |-> [explanation |-> plan.explanation, issues |-> plan.issues,
                   actions |-> plan.actions],
     stats |-> [rowsBefore |-> rowsBefore, rowsAfter |-> Len(finalRows),
                columns |-> columns,
                rowsChanged |-> preChanged + aiChanged,
                rowsDropped |-> preDropped + aiDropped],
     cleanedCsv |-> SerializeCsv(finalRows, delimiter)]

\* analyzeCsv threw: cleanCsv ends with its exception
CleanFails(plan) ==
    /\ plan.status # "ok"
    /\ response' = plan
    /\ cpc' = "failed"
    /\ UNCHANGED <<interpVars, normVars, preVars>>

\* mapToCleaningActions, the second applyActions, stats and serializeCsv
CleanCompletes(plan, answer) ==
    /\ plan.status = "ok"
    /\ parsedActions' = IF IsArray(Get(answer.doc, "actions"))
                        THEN Get(answer.doc, "actions").e ELSE <<>>
    /\ via' = "analyze"
    /\ rawActions' = plan.actions
    /\ \E norm \in {MapToCleaningActions(plan.actions)} :
          /\ actions' = norm.out
          /\ npc' = "returned"
          /\ idx' = Len(plan.actions)
          /\ \E st \in {ApplyAll(CallState(preCleanedRows), norm.out, hasHeader)} :
                /\ Called(preCleanedRows, norm.out, st)
                /\ IF st.thrown
                   THEN response' = [status |-> "TypeError"] /\ cpc' = "failed"
                   ELSE /\ response' = CleanResponse(plan, st.workingRows,
                                                     st.rowsChanged, st.rowsDropped)
                        /\ cpc' = "done"
    /\ pass' = 2
    /\ UNCHANGED <<hasHeader, origin, preCleanedRows, preChanged, preDropped>>

\* cleanCsv from the answer of the advisor to its end
CleanResume ==
    /\ cpc = "awaiting"
    /\ \E answer \in PlanAnswers :
          /\ advisor' = answer
          /\ \E plan \in {AnalyzeCsv(answer)} :
                CleanFails(plan) \/ CleanCompletes(plan, answer)
    /\ UNCHANGED <<csv, delimiter, rowsBefore, columns, sample, calls, whole, sampleMaxLines, requests>>

NextClean == CleanStart \/ CleanResume

SpecClean == InitClean /\ [][NextClean]_vars

---------------------------------------------------------------------------
(* Two calls of cleanCsv in progress at once.  cleanCsv keeps what it computes
   in const locals of the call; CsvService and CsvEngineService have no field
   that a call writes.  A call runs from its entry to its await without
   interruption, and from the advisor's answer to its end. *)

RequestIds == {1, 2}

TwoTexts == CsvPieces \cup {ScenarioText, BlankFirstLineText}

TwoDtos ==
    [csv : TwoTexts, delimiter : {Undefined}, hasHeader : {Undefined, JsBool(FALSE)}]

\* a plan with the candidates c
PlanOf(c) ==
    Reply(JsStr(<<"x", "{", "J", "}">>), Explained(JsList(<<JsStr("i")>>), JsList(c)))

TwoAnswers ==
    { Failure, Reply(JsStr(<<"x">>), Undefined),
      PlanOf(<< JsObj([type |-> JsStr("COERCE_NUMERIC"),
                       column_index |-> JsNum(JsInt(0))]) >>),
      PlanOf(<< JsObj([type |-> JsStr("COERCE_NUMERIC"),
                       column_index |-> JsNum(JsHalf(1))]) >>),
      PlanOf(<< JsObj([type |-> JsStr("REMOVE_EMPTY_ROWS")]),
                JsObj([type |-> JsStr("STRIP_WRAPPING_QUOTES")]) >>) }

\* the locals of a call before it has computed any
NoLocals ==
    [rowsBefore |-> 0, columns |-> 0, preCleanedRows |-> <<>>,
     preChanged |-> 0, preDropped |-> 0, sample |-> <<>>]

\* a call of cleanCsv(dto) at its entry; overlap is a ghost: the other call was
\* waiting for the advisor when this one resumed
NewRequest(dto) ==
    [dto |-> dto, cpc |-> "clean", locals |-> NoLocals, advisor |-> NoAnswer,
     response |-> NoResponse, overlap |-> FALSE]

\* the call from parseCsv to the request of analyzeCsvPrompt
StartCall(req) ==
    LET d == Default(req.dto.delimiter, JsStr(<<",">>)).s
        header == Default(req.dto.hasHeader, JsBool(TRUE)).b
        originalRows == ParseCsv(req.dto.csv, d)
        st == ApplyAll(CallState(originalRows), preCleanActions, header)
    IN  IF st.thrown
        THEN [req EXCEPT !.cpc = "failed", !.response = [status |-> "TypeError"]]
        ELSE [req EXCEPT
                 !.cpc = "awaiting",
                 !.locals =
                     [rowsBefore |-> Len(originalRows),
                      columns |-> IF Len(originalRows) > 0
                                  THEN Len(originalRows[1]) ELSE 0,
                      preCleanedRows |-> st.workingRows,
                      preChanged |-> st.rowsChanged,
                      preDropped |-> st.rowsDropped,
                      sample |-> BuildSample(SerializeCsv(st.workingRows, d),
                                             DefaultMaxLines)]]

\* the local variables a resuming call reads, as if they were one set of fields
\* of the service, last written by call 1
LocalsOfFirst(rs, i) == rs[1].locals

\* the local variables a resuming call reads: its own
Locals(rs, i) == rs[i].locals

\* the call from the answer of the advisor to its end, with the locals it reads
ResumeCall(req, locals, answer) ==
    LET d == Default(req.dto.delimiter, JsStr(<<",">>)).s
        header == Default(req.dto.hasHeader, JsBool(TRUE)).b
        plan == AnalyzeCsv(answer)
        st == ApplyAll(CallState(locals.preCleanedRows),
                       MapToCleaningActions(plan.actions).out, header)
    IN  IF plan.status # "ok"
        THEN [req EXCEPT !.advisor = answer, !.cpc = "failed", !.response = plan]
        ELSE IF st.thrown
        THEN [req EXCEPT !.advisor = answer, !.cpc = "failed",
                         !.response = [status |-> "TypeError"]]
        ELSE [req EXCEPT
                 !.advisor = answer,
                 !.cpc = "done",
                 !.response =
                     [status |-> "ok",
                      aiReview |-> [explanation |-> plan.explanation,
                                    issues |-> plan.issues,
                                    actions |-> plan.actions],
                      stats |-> [rowsBefore |-> locals.rowsBefore,
                                 rowsAfter |-> Len(st.workingRows),
                                 columns |-> locals.columns,
                                 rowsChanged |-> locals.preChanged + st.rowsChanged,
                                 rowsDropped |-> locals.preDropped + st.rowsDropped],
                      cleanedCsv |-> SerializeCsv(st.workingRows, d)]]

InitTwo ==
    /\ requests \in [RequestIds -> {NewRequest(dto) : dto \in TwoDtos}]
    /\ cpc = "two" /\ calls = 0
    /\ csv = <<>> /\ delimiter = <<>> /\ rowsBefore = 0 /\ columns = 0
    /\ sample = <<>> /\ advisor = NoAnswer /\ response = NoResponse
    /\ whole = <<>> /\ sampleMaxLines = 0
    /\ InterpIdle /\ NormIdle /\ PreIdle

\* call i runs from its entry to its await
TwoStart(i) ==
    /\ requests[i].cpc = "clean"
    /\ \E started \in {StartCall(requests[i])} :
          /\ requests' = [requests EXCEPT ![i] = started]
          /\ calls' = IF started.cpc = "awaiting" THEN calls + 1 ELSE calls
    /\ UNCHANGED <<interpVars, normVars, preVars, csv, delimiter, rowsBefore,
                   columns, sample, cpc, advisor, response, whole, sampleMaxLines>>

\* call i resumes with the answer of the advisor and runs to its end
TwoResume(i) ==
    /\ requests[i].cpc = "awaiting"
    /\ \E answer \in TwoAnswers :
          requests' =
              [requests EXCEPT
                  ![i] = [ResumeCall(@, Locals(requests, i), answer) EXCEPT
                             !.overlap = \E j \in RequestIds \ {i} :
                                             requests[j].cpc = "awaiting"]]
    /\ UNCHANGED <<interpVars, normVars, preVars, csv, delimiter, rowsBefore,
                   columns, sample, calls, cpc, advisor, response, whole,
                   sampleMaxLines>>

NextTwo == \E i \in RequestIds : TwoStart(i) \/ TwoResume(i)

SpecTwo == InitTwo /\ [][NextTwo]_vars

---------------------------------------------------------------------------
(* Properties of applyActions *)

\* the call has not thrown: workingRows and the counters are what a return gives
Alive == pc \in {"loop", "returned"}

\* C1: with hasHeader, applyActions never removes row 0 of a non-empty table: after
\* any sequence of actions the table is non-empty and its first row is the one
\* that derives from the first row of the input.
C1_HeaderKept ==
    (Alive /\ hasHeader /\ Len(rows0) > 0)
        => (Len(workingRows) >= 1 /\ rowSrc[1] = 1)

\* a blank header outlives REMOVE_EMPTY_ROWS that removed every other row
C1_Witness ==
    /\ pc = "returned" /\ hasHeader
    /\ Len(rows0) >= 2 /\ AllEmpty(rows0[1])
    /\ Len(workingRows) = 1 /\ rowsDropped = Len(rows0) - 1
    /\ rowsChanged = 0 /\ workingRows[1] = rows0[1]

\* C2: applyActions never throws, whatever typed actions it is given.
C2_NeverThrows == pc # "thrown"

\* C5: ENSURE_EQUAL_COLUMNS(pad-with-empty) leaves every row with the cell count the
\* first row had when the action started, removes no row, pads short rows with
\* empty cells at the end, cuts long rows to their first cells, and adds 1 to
\* rowsChanged for each row it padded or cut.
C5_PadPost ==
    LET expected == ExpectedColumns(workingRows)
        n == Len(workingRows)
    IN  /\ Len(workingRows') = n
        /\ \A j \in 1..n :
              /\ Len(workingRows'[j]) = expected
              /\ \A c \in 1..expected :
                    workingRows'[j][c] =
                        IF c <= Len(workingRows[j]) THEN workingRows[j][c] ELSE <<>>
        /\ rowsChanged' = rowsChanged
                          + Cardinality({j \in 1..n : Len(workingRows[j]) # expected})
        /\ rowsDropped' = rowsDropped
        /\ rowSrc' = rowSrc
        /\ pc' = "loop"

C5_PadEqualizes ==
    [][Step([type |-> "ENSURE_EQUAL_COLUMNS", mode |-> "pad-with-empty"]) => C5_PadPost]_vars

\* one row was padded and one was cut by the first action of the list
C5_Witness ==
    /\ applied = 1 /\ Alive
    /\ Len(workingRows) = Len(rows0)
    /\ \E j \in 1..Len(rows0) : Len(rows0[j]) < Len(workingRows[j])
    /\ \E j \in 1..Len(rows0) : Len(rows0[j]) > Len(workingRows[j])
    /\ \A j \in 1..Len(rows0) : Len(workingRows[j]) = Len(rows0[1])
    /\ rowsChanged = 2 /\ rowsDropped = 0

\* C6: the table applyActions returns has as many rows as the input minus rowsDropped.
C6_DroppedIsExact ==
    Alive => (Len(workingRows) = Len(rows0) - rowsDropped /\ rowsDropped >= 0)

\* rows were removed by two different actions of one list
C6_Witness ==
    /\ pc = "returned" /\ applied = 2
    /\ rowsDropped >= 2 /\ Len(workingRows) >= 1
    /\ Len(workingRows) = Len(rows0) - rowsDropped

\* C7: the rows of the result are a subsequence of the input rows, in their order:
\* each derives from one input row, no input row is used twice, none moves; and
\* while no cell was changed the rows are the input rows themselves.
C7_OrderKept ==
    Alive =>
        /\ Len(rowSrc) = Len(workingRows)
        /\ \A j \in 1..Len(rowSrc) : rowSrc[j] \in 1..Len(rows0)
        /\ \A j \in 1..(Len(rowSrc) - 1) : rowSrc[j] < rowSrc[j + 1]
        /\ rowsChanged = 0 =>
              \A j \in 1..Len(rowSrc) : workingRows[j] = rows0[rowSrc[j]]

\* a row between two kept rows was removed
C7_Witness ==
    /\ pc = "returned"
    /\ Len(rows0) = 3 /\ rowSrc = <<1, 3>>
    /\ workingRows = <<rows0[1], rows0[3]>>
    /\ rows0[1] # rows0[3]

---------------------------------------------------------------------------
(* Properties of the single cases of applyActions.  Each is a property of
   what one action kind makes of the table and the counters it finds, stated
   in every state in which the loop can take one more action: the variables
   are what the action finds, st is what it leaves. *)

\* the loop is at an action
CanStep == pc = "loop" /\ applied < MaxActions /\ pass = 0

\* what the action a leaves
After(a) == ApplyOne(Current, a, hasHeader)

\* seq without the elements at the positions in removed, the others in their order
Remaining(seq, removed) ==
    LET kept == (1..Len(seq)) \ removed
    IN  [p \in 1..Cardinality(kept) |->
            seq[CHOOSE j \in kept : Cardinality({i \in kept : i < j}) = p - 1]]

\* position j of the table (from 1) is at or after the data-start index
IsDataRow(j) == j - 1 >= (IF hasHeader THEN 1 ELSE 0)

\* the column is within the bounds of the row
Within(c, row) == c.int >= 0 /\ c.int < Len(row)

Blank(cell) == Trim(cell) = <<>>

Parses(cell) == ~ToNumber(Trim(cell)).nan

\* the canonical text of a cell that parses
Canonical(cell) == NumToString(ToNumber(Trim(cell)))

\* a data row whose cell in column c is in bounds, not blank, and no number
FailsParse(w, j, c) ==
    /\ IsDataRow(j) /\ Within(c, w[j])
    /\ ~Blank(w[j][c.int + 1]) /\ ~Parses(w[j][c.int + 1])

\* in every data row of the table w that has column c, the cell is blank or a number
ColumnClean(w, c) ==
    \A j \in 1..Len(w) :
        (IsDataRow(j) /\ Within(c, w[j])) =>
            (Blank(w[j][c.int + 1]) \/ Parses(w[j][c.int + 1]))

Coerce(c, e) == [type |-> "COERCE_NUMERIC", columnIndex |-> c, onError |-> e]

\* C15: after COERCE_NUMERIC(columnIndex, set-zero) every data row that has the column
\* holds a blank or a numeric cell there, and no row was removed.
C15_SetZeroCleansColumn ==
    CanStep =>
        \A c \in ColumnIndexValues : \A st \in {After(Coerce(c, "set-zero"))} :
            ~st.thrown =>
                /\ ColumnClean(st.workingRows, c)
                /\ Len(st.workingRows) = Len(workingRows)
                /\ st.rowSrc = rowSrc
                /\ st.rowsDropped = rowsDropped

\* the first action put "0" where the cell of row 0 was no number; no header
C15_Witness ==
    /\ applied = 1 /\ Alive /\ ~hasHeader
    /\ Len(workingRows) = Len(rows0) /\ Len(rows0) >= 2
    /\ ~Parses(rows0[1][1]) /\ ~Blank(rows0[1][1])
    /\ workingRows[1] = [rows0[1] EXCEPT ![1] = <<"0">>]
    /\ rowsChanged >= 1 /\ rowsDropped = 0

\* C16: COERCE_NUMERIC(columnIndex, drop-row) removes exactly the data rows whose cell
\* in the column is in bounds, not blank and no number, two or more in a row too,
\* adds 1 to rowsDropped for each, and leaves the column blank or numeric in
\* every data row that remains.
C16_DropRowRemovesAllFailing ==
    CanStep =>
        \A c \in ColumnIndexValues : \A st \in {After(Coerce(c, "drop-row"))} :
            LET failing == {j \in 1..Len(workingRows) : FailsParse(workingRows, j, c)}
            IN  ~st.thrown =>
                    /\ st.rowSrc = Remaining(rowSrc, failing)
                    /\ Len(st.workingRows) = Len(workingRows) - Cardinality(failing)
                    /\ st.rowsDropped = rowsDropped + Cardinality(failing)
                    /\ ColumnClean(st.workingRows, c)

\* rows 2 and 3, one after the other, were removed for the text in their second
\* cell; they are as wide as row 1 and not empty, so no other action removes them
C16_Witness ==
    /\ applied = 1 /\ Alive /\ ~hasHeader
    /\ Len(rows0) = 3 /\ rowSrc = <<1>>
    /\ rowsDropped = 2 /\ rowsChanged = 0
    /\ \A j \in 1..3 : Len(rows0[j]) = 2
    /\ Blank(rows0[1][2])
    /\ \A j \in 2..3 : ~Blank(rows0[j][2]) /\ ~Parses(rows0[j][2])

\* C17: in each data row that has the column and a cell there that is not blank,
\* COERCE_NUMERIC writes the canonical text when the cell parses (counted when it
\* differs from the text that was there), '' under set-null and '0' under
\* set-zero when it does not (counted); the other cells, the blank cells, the
\* rows without the column and the header row stay as they are, uncounted.
C17_RewritePost(st, c, e) ==
    LET w == workingRows
        failing == IF e = "drop-row"
                   THEN {j \in 1..Len(w) : FailsParse(w, j, c)} ELSE {}
        touched == {j \in 1..Len(w) :
                       IsDataRow(j) /\ Within(c, w[j]) /\ ~Blank(w[j][c.int + 1])}
        NewRow(j) ==
            IF j \notin touched THEN w[j]
            ELSE IF Parses(w[j][c.int + 1])
            THEN [w[j] EXCEPT ![c.int + 1] = Canonical(w[j][c.int + 1])]
            ELSE IF e = "set-null" THEN [w[j] EXCEPT ![c.int + 1] = <<>>]
            ELSE [w[j] EXCEPT ![c.int + 1] = <<"0">>]
        counted == {j \in touched \ failing : NewRow(j) # w[j]}
    IN  /\ st.workingRows = Remaining([j \in 1..Len(w) |-> NewRow(j)], failing)
        /\ st.rowsChanged = rowsChanged + Cardinality(counted)

C17_RewriteAndCount ==
    CanStep =>
        \A c \in ColumnIndexValues, e \in CoerceOnErrors :
            \A st \in {After(Coerce(c, e))} :
                ~st.thrown => C17_RewritePost(st, c, e)

\* with a header: " 7" in the second cell of a data row became "7", the text in
\* that cell of another data row became '', the header kept its text
C17_Witness ==
    /\ applied = 1 /\ Alive /\ hasHeader
    /\ Len(rows0) = 3 /\ Len(workingRows) = 3
    /\ \A j \in 1..3 : Len(rows0[j]) >= 2
    /\ workingRows[1] = rows0[1] /\ ~Blank(rows0[1][2]) /\ ~Parses(rows0[1][2])
    /\ \E j \in 2..3 :
          /\ rows0[j][2] = <<" ", "7">>
          /\ workingRows[j] = [rows0[j] EXCEPT ![2] = <<"7">>]
    /\ \E j \in 2..3 :
          /\ ~Blank(rows0[j][2]) /\ ~Parses(rows0[j][2])
          /\ workingRows[j] = [rows0[j] EXCEPT ![2] = <<>>]
    /\ rowsChanged = 2 /\ rowsDropped = 0

Ensure(m) == [type |-> "ENSURE_EQUAL_COLUMNS", mode |-> m]

\* C18: ENSURE_EQUAL_COLUMNS(drop-row) removes every row that has fewer or more cells
\* than the first row of the table it finds, adds 1 to rowsDropped for each and
\* nothing to rowsChanged, and leaves the other rows, the first one among them,
\* as they are.
C18_DropRowRemovesDiffering ==
    CanStep =>
        \A st \in {After(Ensure("drop-row"))} :
            LET w == workingRows
                differing == {j \in 1..Len(w) : Len(w[j]) # Len(w[1])}
            IN  /\ ~st.thrown
                /\ st.workingRows = Remaining(w, differing)
                /\ st.rowSrc = Remaining(rowSrc, differing)
                /\ st.rowsDropped = rowsDropped + Cardinality(differing)
                /\ st.rowsChanged = rowsChanged
                /\ Len(w) > 0 => (Len(st.workingRows) > 0 /\ st.workingRows[1] = w[1])

\* a shorter and a longer row were removed, the first row is what it was; the
\* two rows are not empty and their first cells are no text that fails to parse
\* in both, so no other action removes the two of them
C18_Witness ==
    /\ applied = 1 /\ Alive /\ ~hasHeader
    /\ Len(rows0) = 3 /\ rowSrc = <<1>> /\ workingRows = <<rows0[1]>>
    /\ Len(rows0[1]) = 2
    /\ \E j \in 2..3 : Len(rows0[j]) = 1 /\ ~Blank(rows0[j][1])
    /\ \E j \in 2..3 : Len(rows0[j]) = 3 /\ Parses(rows0[j][1]) /\ ~AllEmpty(rows0[j])
    /\ rowsDropped = 2 /\ rowsChanged = 0

\* C19 as stated: the cell count of the first row of the input is the expected count
\* of every ENSURE_EQUAL_COLUMNS action of the call, whatever the actions before
\* it did to the first row: after each such action every row has that count.
C19_WidthRecordedOnce ==
    CanStep =>
        \A m \in CleaningModes : \A st \in {After(Ensure(m))} :
            \A j \in 1..Len(st.workingRows) : Len(st.workingRows[j]) = Len(rows0[1])

\* C19 amended: the expected count of an ENSURE_EQUAL_COLUMNS action is the cell count
\* of the first row of the table the action finds; with hasHeader that row is
\* the header of the input and its count never changes during the call, without
\* hasHeader it is whatever row the actions before left in front.
C19_WidthOfCurrentFirstRow ==
    /\ (Alive /\ hasHeader /\ Len(rows0) > 0) =>
          (Len(workingRows) > 0 /\ Len(workingRows[1]) = Len(rows0[1]))
    /\ CanStep =>
          \A m \in CleaningModes : \A st \in {After(Ensure(m))} :
              \A j \in 1..Len(st.workingRows) :
                  Len(st.workingRows[j]) = Len(workingRows[1])

\* without a header the first row was removed, and the second action gave the
\* rows the cell count of the row then in front, not that of the input's first row
C19_Witness ==
    /\ applied = 2 /\ Alive /\ ~hasHeader
    /\ Len(workingRows) >= 2 /\ rowSrc[1] # 1
    /\ Len(rows0[rowSrc[1]]) # Len(rows0[1])
    /\ \A j \in 1..Len(workingRows) : Len(workingRows[j]) = Len(rows0[rowSrc[1]])
    /\ \E j \in 1..Len(workingRows) : Len(workingRows[j]) # Len(rows0[rowSrc[j]])

\* C20: REMOVE_EMPTY_ROWS removes a row that is not the header exactly when every cell
\* it examines is blank, the examined cells being all but the first of a row of
\* more than one cell and the one cell of a row that has one; each removal adds 1
\* to rowsDropped and the rows that stay are as they were.
C20_RemoveEmptyExact ==
    CanStep =>
        \A st \in {After([type |-> "REMOVE_EMPTY_ROWS"])} :
            LET w == workingRows
                Examined(row) == IF Len(row) > 1 THEN Tail(row) ELSE row
                empty == {j \in 1..Len(w) :
                             /\ ~(hasHeader /\ j = 1)
                             /\ \A c \in 1..Len(Examined(w[j])) :
                                   Blank(Examined(w[j])[c])}
            IN  /\ ~st.thrown
                /\ st.workingRows = Remaining(w, empty)
                /\ st.rowSrc = Remaining(rowSrc, empty)
                /\ st.rowsDropped = rowsDropped + Cardinality(empty)
                /\ st.rowsChanged = rowsChanged

\* a row with a number in its first cell and a blank second cell was removed; it
\* is as wide as the first row and its cells parse or are blank, so no other
\* action removes it
C20_Witness ==
    /\ applied = 1 /\ Alive
    /\ Len(rows0) = 2 /\ rowSrc = <<1>> /\ workingRows = <<rows0[1]>>
    /\ Len(rows0[1]) = 2 /\ Len(rows0[2]) = 2
    /\ Parses(rows0[2][1]) /\ Blank(rows0[2][2])
    /\ rowsDropped = 1 /\ rowsChanged = 0

\* the text of the cell, trimmed, has two characters or more and a double quote
\* at each end
Quoted(cell) ==
    \E t \in {Trim(cell)} : Len(t) >= 2 /\ t[1] = Q /\ t[Len(t)] = Q

\* C21: STRIP_WRAPPING_QUOTES replaces a cell whose trimmed text has at least two
\* characters and begins and ends with a double quote by that trimmed text
\* without its first and last character, one layer and no unescaping, and counts
\* it once; every other cell keeps its text, whitespace included, and is not
\* counted; no row is added, removed or moved.
C21_StripExact ==
    CanStep =>
        \A st \in {After([type |-> "STRIP_WRAPPING_QUOTES"])} :
            /\ ~st.thrown
            /\ Len(st.workingRows) = Len(workingRows)
            /\ \A j \in 1..Len(workingRows) :
                   /\ Len(st.workingRows[j]) = Len(workingRows[j])
                   /\ \A c \in 1..Len(workingRows[j]) :
                          \E old \in {workingRows[j][c]}, t \in {Trim(workingRows[j][c])} :
                              st.workingRows[j][c] =
                                  IF Quoted(old) THEN SubSeq(t, 2, Len(t) - 1) ELSE old
            /\ st.rowsChanged = rowsChanged
                   + Cardinality({p \in CellPositions(workingRows) :
                                     Quoted(workingRows[p[1]][p[2]])})
            /\ st.rowsDropped = rowsDropped
            /\ st.rowSrc = rowSrc
            /\ st.rows = rows

\* of the row ",""q"" the lone quote stayed and ""q"" lost one layer of quotes,
\* counted once; the cell _7 of another row kept its leading blank
C21_Witness ==
    /\ applied = 1 /\ Alive /\ Len(workingRows) = Len(rows0)
    /\ \E j \in 1..Len(rows0) :
          /\ rows0[j] = << <<Q>>, <<Q, Q, "q", Q, Q>> >>
          /\ workingRows[j] = << <<Q>>, <<Q, "q", Q>> >>
    /\ \E j \in 1..Len(rows0) :
          /\ Len(rows0[j]) = 3 /\ rows0[j][2] = <<" ", "7">>
          /\ workingRows[j] = rows0[j]
    /\ rowsChanged = 1 /\ rowsDropped = 0

---------------------------------------------------------------------------
(* Properties of two calls of applyActions in a row *)

\* C22: applyActions(applyActions(T, A).rows, B) returns the table that
\* applyActions(T, A followed by B) returns, its counters added to those of the
\* first call are the counters of the one call, and one throws when the other
\* does; with the empty list a call returns its table and both counters 0.
C22_CallsCompose ==
    /\ (pass = 2 /\ Alive) =>
          /\ ~whole.call.thrown
          /\ workingRows = whole.call.workingRows
          /\ preChanged + rowsChanged = whole.call.rowsChanged
          /\ preDropped + rowsDropped = whole.call.rowsDropped
    /\ (pass = 2 /\ pc = "thrown") => whole.call.thrown
    /\ (pc = "returned" /\ applied = 0) =>
          (workingRows = rows0 /\ rowsChanged = 0 /\ rowsDropped = 0)

\* the first call changed cells, the second changed a cell and removed a row,
\* and has returned
C22_Witness ==
    /\ pass = 2 /\ pc = "returned" /\ applied = 1 /\ whole.applied = 2
    /\ preChanged > 0 /\ rowsChanged > 0 /\ rowsDropped > 0
    /\ workingRows = whole.call.workingRows /\ Len(workingRows) >= 1

---------------------------------------------------------------------------
(* Properties of the Normalizer *)

\* the loop has not thrown: actions is what a return gives for the candidates read
NormAlive == npc \in {"loop", "returned"}

Range(f) == {f[j] : j \in DOMAIN f}

\* the candidate is an object whose type is the string kind
HasType(a, kind) == Get(a, "type") = JsStr(kind)

\* C3: the Normalizer never throws, whatever the elements of rawActions are.
C3_NormalizerTotal == npc # "thrown"

\* C8: the typed actions are an order-preserving filter of the candidates: each comes
\* from one candidate and has its type, they stand in the order of their
\* candidates, every type is one of the five kinds, and a candidate whose type is
\* not a string naming one of the five gives no action.
C8_OrderPreservingFilter ==
    NormAlive =>
        /\ Len(origin) = Len(actions)
        /\ \A j \in 1..Len(origin) : origin[j] \in 1..idx
        /\ \A j \in 1..(Len(origin) - 1) : origin[j] < origin[j + 1]
        /\ \A j \in 1..Len(actions) :
              /\ actions[j].type \in ActionKinds
              /\ HasType(rawActions[origin[j]], actions[j].type)
        /\ \A k \in 1..idx :
              (\A kind \in ActionKinds : ~HasType(rawActions[k], kind))
                  => k \notin Range(origin)

\* {type: "FOO"} gave nothing and the candidate after it gave the one action
C8_Witness ==
    /\ npc = "returned" /\ via = "direct"
    /\ Len(rawActions) = 2 /\ HasType(rawActions[1], "FOO")
    /\ origin = <<2>> /\ Len(actions) = 1

\* the candidate names a column under neither spelling
NoColumnIndex(a) ==
    /\ TypeOf(Get(a, "columnIndex")) # "number"
    /\ TypeOf(Get(a, "column_index")) # "number"

\* the candidates without those at the positions in drop
RECURSIVE Without(_, _, _)
Without(cands, drop, k) ==
    IF k > Len(cands) THEN <<>>
    ELSE (IF k \in drop THEN <<>> ELSE <<cands[k]>>) \o Without(cands, drop, k + 1)

\* C9: a COERCE_NUMERIC candidate whose column index is missing or no number gives
\* no action, and the list is normalized as it would be without that candidate.
C9_NoIndexNoAction ==
    LET bad == {k \in 1..Len(rawActions) :
                   HasType(rawActions[k], "COERCE_NUMERIC") /\ NoColumnIndex(rawActions[k])}
    IN  /\ NormAlive => \A k \in bad : k \notin Range(origin)
        /\ npc = "returned" =>
              actions = MapToCleaningActions(Without(rawActions, bad, 1)).out

\* the COERCE_NUMERIC candidate without an index is gone, its neighbour is not
C9_Witness ==
    /\ npc = "returned" /\ via = "direct"
    /\ Len(rawActions) = 2
    /\ rawActions[1] = JsObj([type |-> JsStr("COERCE_NUMERIC")])
    /\ HasType(rawActions[2], "ENSURE_EQUAL_COLUMNS")
    /\ actions = << [type |-> "ENSURE_EQUAL_COLUMNS", mode |-> "pad-with-empty"] >>

\* the column index a candidate gives: column_index when that is a number, else columnIndex
GivenIndex(a) ==
    IF TypeOf(Get(a, "column_index")) = "number"
    THEN Get(a, "column_index").n ELSE Get(a, "columnIndex").n

\* candidate k gave a COERCE_NUMERIC action on column c
CoercesColumn(k, c) ==
    \E j \in 1..Len(actions) :
        /\ origin[j] = k
        /\ actions[j].type = "COERCE_NUMERIC"
        /\ actions[j].columnIndex = c

\* C10 as stated: a COERCE_NUMERIC candidate with a numeric column index under
\* column_index or under columnIndex gives a COERCE_NUMERIC action with that index
\* when it is handed to the Normalizer.
C10_EitherSpelling ==
    (npc = "returned" /\ via = "direct") =>
        \A k \in 1..Len(parsedActions) :
            (HasType(parsedActions[k], "COERCE_NUMERIC") /\ ~NoColumnIndex(parsedActions[k]))
                => CoercesColumn(k, GivenIndex(parsedActions[k]))

\* C10 amended: mapToCleaningActions reads columnIndex alone, and a candidate
\* that has a number only under column_index gives no action there; it is the
\* mapping of analyzeCsv that accepts both spellings (column_index first), so
\* on the way cleanCsv takes either spelling gives the COERCE_NUMERIC action.
C10_SpellingByAnalyze ==
    npc = "returned" =>
        \A k \in 1..Len(parsedActions) :
            LET a == parsedActions[k]
            IN  (HasType(a, "COERCE_NUMERIC") /\ ~NoColumnIndex(a)) =>
                    IF via = "analyze" THEN CoercesColumn(k, GivenIndex(a))
                    ELSE IF TypeOf(Get(a, "columnIndex")) = "number"
                    THEN CoercesColumn(k, Get(a, "columnIndex").n)
                    ELSE k \notin Range(origin)

\* column_index: 2 came through analyzeCsv and gave COERCE_NUMERIC on column 2
C10_Witness ==
    /\ npc = "returned" /\ via = "analyze"
    /\ Len(parsedActions) = 1
    /\ Get(parsedActions[1], "column_index") = JsNum(JsInt(2))
    /\ Get(parsedActions[1], "columnIndex") = Undefined
    /\ actions = << [type |-> "COERCE_NUMERIC", columnIndex |-> JsInt(2),
                     onError |-> "drop-row"] >>

\* C11: an ENSURE_EQUAL_COLUMNS action has mode pad-with-empty exactly when the mode
\* of its candidate is the string 'pad-with-empty', and drop-row otherwise; a
\* COERCE_NUMERIC action has the onError of its candidate when that is the string
\* 'set-null', 'set-zero' or 'drop-row', and drop-row otherwise.
C11_ParameterDefaults ==
    NormAlive =>
        \A j \in 1..Len(actions) :
            LET a == rawActions[origin[j]]
                mode == Get(a, "mode")
                onError == Get(a, "onError")
                padAsked == TypeOf(mode) = "string" /\ mode.s = "pad-with-empty"
                onErrorGiven == TypeOf(onError) = "string" /\ onError.s \in CoerceOnErrors
            IN  /\ actions[j].type = "ENSURE_EQUAL_COLUMNS" =>
                      /\ actions[j].mode \in CleaningModes
                      /\ actions[j].mode = "pad-with-empty" <=> padAsked
                /\ actions[j].type = "COERCE_NUMERIC" =>
                      actions[j].onError = IF onErrorGiven THEN onError.s ELSE "drop-row"

\* mode 'bogus' and onError 'bogus' both came out as drop-row
C11_Witness ==
    /\ npc = "returned" /\ via = "direct"
    /\ Len(rawActions) = 2
    /\ Get(rawActions[1], "mode") = JsStr("bogus")
    /\ Get(rawActions[2], "onError") = JsStr("bogus")
    /\ actions = << [type |-> "ENSURE_EQUAL_COLUMNS", mode |-> "drop-row"],
                     [type |-> "COERCE_NUMERIC", columnIndex |-> JsHalf(1),
                      onError |-> "drop-row"] >>

\* C12 as stated: every parameter an action carries (mode, columnIndex, onError) is
\* a field of the candidate it came from, with that value and of the right type.
C12_NoInventedParameters ==
    NormAlive =>
        \A j \in 1..Len(actions) :
            LET a == rawActions[origin[j]]
            IN  /\ actions[j].type = "ENSURE_EQUAL_COLUMNS" =>
                      Get(a, "mode") = JsStr(actions[j].mode)
                /\ actions[j].type = "COERCE_NUMERIC" =>
                      /\ Get(a, "columnIndex") = JsNum(actions[j].columnIndex)
                      /\ Get(a, "onError") = JsStr(actions[j].onError)

\* C12 amended: columnIndex is never made up, it is the number the candidate has
\* as columnIndex; mode and onError are the candidate's own value or else the
\* fallback drop-row, which is put in when the candidate has no such field or
\* one that is no allowed string.
C12_OnlyDropRowInvented ==
    NormAlive =>
        \A j \in 1..Len(actions) :
            LET a == rawActions[origin[j]]
            IN  /\ actions[j].type = "ENSURE_EQUAL_COLUMNS" =>
                      \/ Get(a, "mode") = JsStr(actions[j].mode)
                      \/ /\ actions[j].mode = "drop-row"
                         /\ Get(a, "mode") # JsStr("pad-with-empty")
                /\ actions[j].type = "COERCE_NUMERIC" =>
                      /\ Get(a, "columnIndex") = JsNum(actions[j].columnIndex)
                      /\ \/ Get(a, "onError") = JsStr(actions[j].onError)
                         \/ /\ actions[j].onError = "drop-row"
                            /\ Get(a, "onError") \notin {JsStr(e) : e \in CoerceOnErrors}

\* a candidate with no mode field gave an action with mode drop-row
C12_Witness ==
    /\ npc = "returned" /\ via = "direct"
    /\ rawActions = << JsObj([type |-> JsStr("ENSURE_EQUAL_COLUMNS")]) >>
    /\ actions = << [type |-> "ENSURE_EQUAL_COLUMNS", mode |-> "drop-row"] >>

---------------------------------------------------------------------------
(* Properties of cleanCsv: from the advisor's decoded candidates
   (parsed.actions) to the actions it emits and the actions it applies *)

\* C13: in cleanCsv the candidates reach the Normalizer with their parameters: an
\* ENSURE_EQUAL_COLUMNS candidate with mode 'pad-with-empty' gives the action in
\* pad-with-empty mode, and a COERCE_NUMERIC candidate with a numeric column
\* index and onError 'set-null' or 'set-zero' gives the action with that onError.
C13_ParametersReachNormalizer ==
    (npc = "returned" /\ via = "analyze") =>
        \A k \in 1..Len(parsedActions) :
            LET a == parsedActions[k]
            IN  /\ (HasType(a, "ENSURE_EQUAL_COLUMNS")
                        /\ Get(a, "mode") = JsStr("pad-with-empty")) =>
                      \E j \in 1..Len(actions) :
                          origin[j] = k /\ actions[j].mode = "pad-with-empty"
                /\ (HasType(a, "COERCE_NUMERIC") /\ ~NoColumnIndex(a)
                        /\ Get(a, "onError") \in {JsStr("set-null"), JsStr("set-zero")}) =>
                      \E j \in 1..Len(actions) :
                          origin[j] = k /\ actions[j].onError = Get(a, "onError").s

\* a value as it is emitted: own properties that are undefined are left out
Emitted(v) ==
    IF v.t # "object" THEN v
    ELSE JsObj([name \in {x \in DOMAIN v.f : v.f[x] # Undefined} |-> v.f[name]])

\* C14: cleanCsv emits the advisor's actions as they were given: plan.actions has one
\* entry for each decoded candidate, in the same order, each equal to the candidate.
C14_ActionsVerbatim ==
    (via = "analyze" /\ npc \in {"loop", "returned"}) =>
        /\ Len(rawActions) = Len(parsedActions)
        /\ \A k \in 1..Len(parsedActions) :
              Emitted(rawActions[k]) = Emitted(parsedActions[k])

---------------------------------------------------------------------------
(* Properties of parseCsv and serializeCsv *)

\* C29: for every text and delimiter, parsing the serialized table gives the table
\* again: parse(serialize(T, d), d) = T for T = parse(text, d).
C29_RoundTrip == cpc = "reparsed" => rows = rows0

\* the text is made of line ends alone, "\n" and "\r\n"
RECURSIVE OnlyLineEnds(_)
OnlyLineEnds(s) ==
    \/ s = <<>>
    \/ Head(s) = "\n" /\ OnlyLineEnds(Tail(s))
    \/ Len(s) >= 2 /\ Head(s) = "\r" /\ s[2] = "\n" /\ OnlyLineEnds(Tail(Tail(s)))

\* C30: every text that is not empty parses to a table of at least one row.
C30_NonEmptyTextHasRows ==
    (cpc = "parsed" /\ csv # <<>>) => Len(rows) >= 1

\* C30, amended: the parsed table has no rows exactly when the text holds line
\* ends and nothing else (the empty text among them).
C30_NoRowsIffOnlyLineEnds ==
    cpc = "parsed" => (Len(rows) = 0 <=> OnlyLineEnds(csv))

\* a text of two line ends, three characters long, parsed to no row
C30_Witness ==
    cpc = "parsed" /\ csv = <<"\r", "\n", "\n">> /\ rows = <<>>

---------------------------------------------------------------------------
(* Properties of cleanCsv: the two passes, the request to the advisor and
   the response *)

\* the widths of the rows of a table are all that of its first row
EqualWidths(t) == \A j \in 1..Len(t) : Len(t[j]) = Len(t[1])

\* C23: on a successful clean, stats.rowsChanged and stats.rowsDropped are the sums
\* of the counters of the two passes, rowsBefore is the number of rows of the
\* parsed text, rowsAfter the number of rows of the final table, and cleanedCsv
\* the serialization of the final table.
C23_StatsAreSums ==
    cpc = "done" =>
        /\ pass = 2 /\ pc = "returned"
        /\ response.stats.rowsChanged = preChanged + rowsChanged
        /\ response.stats.rowsDropped = preDropped + rowsDropped
        /\ response.stats.rowsBefore = Len(ParseCsv(csv, delimiter))
        /\ response.stats.rowsAfter = Len(workingRows)
        /\ response.cleanedCsv = SerializeCsv(workingRows, delimiter)

\* both passes counted: the pre-clean pass changed cells and removed a row, the
\* advisor's COERCE_NUMERIC rewrote a cell and removed a row
C23_Witness ==
    /\ cpc = "done"
    /\ preChanged > 0 /\ preDropped > 0 /\ rowsChanged > 0 /\ rowsDropped > 0
    /\ response.stats.rowsBefore = 3 /\ response.stats.rowsAfter = 1
    /\ hasHeader = FALSE

AdvisorFailed ==
    \/ advisor.outcome = "error"
    \/ advisor.outcome = "reply"
          /\ (advisor.content.t # "string" \/ advisor.content.s = <<>>)

\* C25: when the advisor call fails, cleanCsv fails with that error and returns no
\* cleaned text, stats or partial result; one request is sent for a call of
\* cleanCsv, never a second one.
C25_AdvisorFailureFailsCall ==
    /\ calls <= 1
    /\ cpc \in {"awaiting", "done"} => calls = 1
    /\ AdvisorFailed => (cpc = "failed" /\ response = [status |-> "Error"] /\ calls = 1)

\* the request failed after a pre-clean pass that changed cells: no response
C25_Witness ==
    /\ cpc = "failed" /\ advisor.outcome = "error" /\ calls = 1
    /\ preChanged > 0 /\ response = [status |-> "Error"]

\* C27: for every text, delimiter and hasHeader, parseCsv and the pre-clean plan
\* return a table without throwing, and every row of it has as many cells as
\* its first row.
C27_PreCleanTotal ==
    cpc # "clean" =>
        /\ ~(pass = 1 /\ pc = "thrown")
        /\ EqualWidths(preCleanedRows)

\* a first row of three cells and a row of two: the row of two was padded
C27_Witness ==
    /\ cpc = "awaiting" /\ pc = "returned"
    /\ Len(rows0) = 3 /\ Len(rows0[1]) = 3 /\ Len(rows0[2]) = 2
    /\ Len(preCleanedRows) = 3 /\ Len(preCleanedRows[2]) = 3

---------------------------------------------------------------------------
(* Properties of analyzeCsv *)

\* C26: whatever text the advisor sends, analyzeCsv returns a result or fails with
\* a BadRequestException; it never fails with another error, whatever the
\* elements of the actions array are.
C26_DecodeNeverCrashes ==
    (cpc \in {"done", "failed"} /\ ~AnalyzeCsvPrompt(advisor).thrown)
        => response.status \in {"ok", "BadRequest"}

---------------------------------------------------------------------------
(* Properties of the pre-clean plan *)

\* C4: the pre-clean plan is idempotent: run on the table it returned, it returns
\* the same table with rowsChanged = 0 and rowsDropped = 0.
C4_PlanIdempotent ==
    (pass = 2 /\ pc = "returned") =>
        (workingRows = preCleanedRows /\ rowsChanged = 0 /\ rowsDropped = 0)

---------------------------------------------------------------------------
(* Properties of applyActions: the table of the caller and the counters *)

\* C33: applyActions is pure with respect to its input: the table that was passed
\* in holds after the call (and all along the call) exactly the rows and cells
\* it held before it.
C33_InputUntouched == rows = rows0

\* C36: the counters of a call reflect real change.  Both are 0 exactly when the
\* returned table is equal to the input table; rowsDropped counts the rows that
\* are absent from the result; and an action raises a counter exactly when the
\* table it leaves differs from the table it found.
C36_CountersReflectChange ==
    /\ Alive =>
          /\ (rowsChanged = 0 /\ rowsDropped = 0) <=> workingRows = rows0
          /\ rowsDropped = Len(rows0) - Len(workingRows)
    /\ (pc = "loop" /\ whole.applied < MaxActions) =>
          \A a \in ActionValues : \A st \in {ApplyOne(Current, a, hasHeader)} :
              ~st.thrown =>
                 /\ (st.rowsChanged = rowsChanged /\ st.rowsDropped = rowsDropped)
                       <=> st.workingRows = workingRows
                 /\ st.rowsDropped - rowsDropped
                       = Len(workingRows) - Len(st.workingRows)

\* a call that has changed cells and removed a row, and one action later
C36_Witness ==
    /\ pass = 1 /\ pc = "loop" /\ applied = 2
    /\ rowsChanged > 0 /\ rowsDropped > 0 /\ workingRows # rows0
    /\ Len(workingRows) >= 1

---------------------------------------------------------------------------
(* Properties of cleanCsv: a scenario of the pre-clean plan, the cleaned text
   and the reported number of columns *)

\* the rows [ID,Name,Age], [1,John,25], [2,Anna,(no character)]
ScenarioRows ==
    << << <<"I", "D">>, <<"N", "a", "m", "e">>, <<"A", "g", "e">> >>,
       << <<"1">>, <<"J", "o", "h", "n">>, <<"2", "5">> >>,
       << <<"2">>, <<"A", "n", "n", "a">>, <<>> >> >>

Scenario == csv = ScenarioText /\ delimiter = <<",">> /\ hasHeader

\* C35: for the lines ID,Name,Age / 1,_John_,25 / 2,"Anna", / ,,_ with delimiter
\* "," and hasHeader = true the pre-clean plan yields the rows [ID,Name,Age],
\* [1,John,25] and [2,Anna,(no character)], removes the row ,,_ and reports
\* rowsDropped >= 1 and rowsChanged >= 2.
C35_PreCleanScenario ==
    (Scenario /\ cpc \in {"awaiting", "done", "failed"}) =>
        /\ rowsBefore = 4
        /\ preCleanedRows = ScenarioRows
        /\ \A j \in 1..Len(preCleanedRows) :
              \E c \in 1..Len(preCleanedRows[j]) : Trim(preCleanedRows[j][c]) # <<>>
        /\ preDropped >= 1
        /\ preChanged >= 2

\* the pre-clean plan has run on the scenario: three cells changed, one row removed
C35_Witness ==
    /\ Scenario /\ cpc = "awaiting" /\ pc = "returned" /\ applied = 4
    /\ preChanged = 3 /\ preDropped = 1 /\ Len(preCleanedRows) = 3

\* C37: the cleaned text agrees with the reported row count: parsing cleanedCsv
\* with the same delimiter yields the final table, so it has stats.rowsAfter rows.
C37_CleanedTextParsesBack ==
    cpc = "done" =>
        /\ ParseCsv(response.cleanedCsv, delimiter) = workingRows
        /\ Len(ParseCsv(response.cleanedCsv, delimiter)) = response.stats.rowsAfter

\* C38: stats.columns is the number of cells of every row of the final table of a
\* successful clean whose result has rows.
C38_ColumnsIsFinalWidth ==
    (cpc = "done" /\ Len(workingRows) > 0) =>
        \A j \in 1..Len(workingRows) : Len(workingRows[j]) = response.stats.columns

---------------------------------------------------------------------------
(* Properties of parseCsv and buildSample: the lines of a text *)

\* the lines of a text when "\n", "\r" followed by "\n", and "\r" alone each
\* end a line
RECURSIVE AnyStyleLinesFrom(_, _)
AnyStyleLinesFrom(s, cur) ==
    IF s = <<>> THEN <<cur>>
    ELSE IF Head(s) = "\r" /\ Len(s) >= 2 /\ s[2] = "\n"
         THEN <<cur>> \o AnyStyleLinesFrom(Tail(Tail(s)), <<>>)
    ELSE IF Head(s) \in {"\r", "\n"}
         THEN <<cur>> \o AnyStyleLinesFrom(Tail(s), <<>>)
    ELSE AnyStyleLinesFrom(Tail(s), cur \o <<Head(s)>>)

AnyStyleLines(s) == AnyStyleLinesFrom(s, <<>>)

\* C31: parseCsv splits the text into lines on any line-ending style ("\n",
\* "\r\n" or "\r" alone), discards exactly the lines of zero length, and gives
\* one row of at least one cell per retained line, in line order: the cells of
\* row j joined by the delimiter are the j-th retained line.
C31_OneRowPerLine ==
    cpc = "parsed" =>
        \E kept \in {SelectSeq(AnyStyleLines(csv), LAMBDA line : Len(line) > 0)} :
            /\ Len(rows) = Len(kept)
            /\ \A j \in 1..Len(rows) :
                  /\ Len(rows[j]) >= 1
                  /\ Join(rows[j], delimiter) = kept[j]

\* the number of lines of a text; the text of no character has none
LineCount(text) == IF text = <<>> THEN 0 ELSE Len(SplitLines(text))

IsPrefix(p, text) == Len(p) <= Len(text) /\ p = SubSeq(text, 1, Len(p))

\* C32: buildSample(text, maxLines) returns the first maxLines lines of the text,
\* otherwise unmodified: the result has at most maxLines lines, is a prefix of
\* the text when the text has more than maxLines lines, is the text when it has
\* at most maxLines lines, and is the same for the same arguments.
C32_SampleIsPrefix ==
    cpc = "sampled" =>
        /\ LineCount(sample) <= sampleMaxLines
        /\ LineCount(csv) > sampleMaxLines => IsPrefix(sample, csv)
        /\ LineCount(csv) <= sampleMaxLines => sample = csv
        /\ sample = BuildSample(csv, sampleMaxLines)

---------------------------------------------------------------------------
(* Properties of two calls of cleanCsv in progress at once *)

\* the call of r run alone, as far as r has come: same dto, same answer
AloneAt(r) ==
    LET started == StartCall(NewRequest(r.dto))
    IN  IF r.cpc = "clean" THEN NewRequest(r.dto)
        ELSE IF r.advisor = NoAnswer THEN started
        ELSE ResumeCall(started, started.locals, r.advisor)

\* C34: two overlapping calls of cleanCsv, interleaved at their advisor calls in
\* any order, are independent: at every moment the locals (table, counters,
\* sample) of each call, and at its end its response (stats, cleaned text or
\* failure), are those of the same call run alone with the same dto and the same
\* answer of the advisor.
C34_CallsIndependent ==
    cpc = "two" =>
        \A i \in RequestIds :
            [requests[i] EXCEPT !.overlap = FALSE] = AloneAt(requests[i])

\* both calls have ended with a response, for different texts; call 2 was waiting
\* for the advisor when call 1 resumed
C34_Witness ==
    /\ cpc = "two"
    /\ requests[1].cpc = "done" /\ requests[2].cpc = "done"
    /\ requests[1].overlap
    /\ requests[1].dto.csv = ScenarioText /\ requests[2].dto.csv = BlankFirstLineText
    /\ requests[1].response.stats.rowsDropped = 1
    /\ requests[2].response.stats.rowsAfter = 2

====
